---- MODULE Spec2Model ----
(***************************************************************************)
(* A model of the Game Boy emulator core: the memory bus (memory.c), the   *)
(* cartridge (cartridge.c), the CPU interpreter (cpu.c), the PPU with its  *)
(* background renderer (the ppu.c revision kept in main.c), the timer      *)
(* (timer.c), the joypad (input.c) and the driver loop (main.c).           *)
(*                                                                         *)
(* Two specifications are given.  Spec is the driver loop of main():       *)
(* power-on, a loaded cartridge, then execute_cpu_cycle, update_ppu,       *)
(* handle_input, update_timer per iteration, and ppu_render_frame when a   *)
(* frame is ready.  SpecCore drives the same operations directly, in any   *)
(* order and with arguments drawn from small sets, as a caller of the      *)
(* component interfaces may.                                               *)
(***************************************************************************)
EXTENDS Integers, Sequences, FiniteSets, TLC

VARIABLES
    cart,               \* current_cartridge: NULL or a loaded [size, data]
    memory,             \* uint8_t memory[MEMORY_SIZE], kept sparse (absent = 0)
    cpu,                \* CPU_State cpu
    ppu,                \* PPU_State ppu, without the framebuffer
    framebuffer,        \* ppu.framebuffer, kept sparse (absent = blank)
    timer_state,        \* Timer_State timer_state
    input_state,        \* Input_State input_state
    pc,                 \* the driver's position in main()'s loop
    instruction_count,  \* main()'s instruction_count
    calls,              \* history: the interface calls made under SpecCore
    last,               \* history: the operation that produced this state
    lineModes           \* history: the modes the PPU has been in on the current line

vars == <<cart, memory, cpu, ppu, framebuffer, timer_state, input_state,
          pc, instruction_count, calls, last, lineModes>>

(***************************************************************************)
(* Bounds of the exploration.                                              *)
(***************************************************************************)
\* Driver iterations explored under Spec (two frames and the start of a third).
MaxSteps == 35200
\* Interface calls explored under SpecCore.
MaxOps == 3

\* The instructions one test program of SpecCpu executes.
MaxInstr == 4

(***************************************************************************)
(* Fixed-width arithmetic.                                                 *)
(***************************************************************************)
U8(x) == x % 256
U16(x) == x % 65536
\* Bit n of x.
Bit(x, n) == (x \div (2 ^ n)) % 2
\* x & ~(1 << n) and x | (1 << n).
ClearBit(x, n) == x - Bit(x, n) * (2 ^ n)
SetBit(x, n) == x + (1 - Bit(x, n)) * (2 ^ n)
\* (int8_t) x for a byte x.
Int8(x) == IF x >= 128 THEN x - 256 ELSE x

(***************************************************************************)
(* gameboy.h, ppu registers and timer registers.                           *)
(***************************************************************************)
\* MEMORY_SIZE = 0x10000
MEMORY_SIZE == 65536
\* FLAG_Z = 0x80
FLAG_Z == 128
\* FLAG_N = 0x40
FLAG_N == 64
\* FLAG_H = 0x20
FLAG_H == 32
\* FLAG_C = 0x10
FLAG_C == 16
\* LCDC = 0xFF40
LCDC == 65344
\* STAT = 0xFF41
STAT == 65345
\* SCY = 0xFF42
SCY == 65346
\* SCX = 0xFF43
SCX == 65347
\* LY = 0xFF44
LY == 65348
\* LYC = 0xFF45
LYC == 65349
\* BGP = 0xFF47
BGP == 65351
GB_SCREEN_WIDTH == 160
GB_SCREEN_HEIGHT == 144
\* TILE_DATA_TABLE_0 = 0x8000
TILE_DATA_TABLE_0 == 32768
\* TILE_DATA_TABLE_2 = 0x9000
TILE_DATA_TABLE_2 == 36864
\* BG_MAP_0 = 0x9800
BG_MAP_0 == 38912
\* BG_MAP_1 = 0x9C00
BG_MAP_1 == 39936
\* JOYPAD_REG = 0xFF00
JOYPAD_REG == 65280
\* DIV = 0xFF04
DIV == 65284
\* TIMA = 0xFF05
TIMA == 65285
\* TMA = 0xFF06
TMA == 65286
\* TAC = 0xFF07
TAC == 65287

(***************************************************************************)
(* cartridge.c                                                             *)
(***************************************************************************)
\* current_cartridge == NULL: no cartridge object.
NULL == [present |-> FALSE, size |-> 0, data |-> [address \in {} |-> 0]]

\* current_cartridge->data[address]: the image's bytes, kept sparse.
CartByte(c, address) ==
    IF address \in DOMAIN c.data THEN c.data[address] ELSE 0

\* cartridge_read with the bound test off by one: the byte at data[size] is read.
cartridge_read_past_end(address) ==
    IF ~cart.present \/ address > cart.size
    THEN \hFF
    ELSE CartByte(cart, address)

cartridge_read(address) ==
    IF ~cart.present \/ address >= cart.size
    THEN \hFF
    ELSE CartByte(cart, address)

\* Storage malloc returned and nothing has written: its value is not determined.
Indeterminate == -1

\* The offsets of the header fields cartridge_load copies, and the size a file
\* must reach for them to be copied.
\* HEADER_TITLE = 0x0134
HEADER_TITLE == 308
\* HEADER_TYPE = 0x0147
HEADER_TYPE == 327
\* HEADER_END = 0x0150
HEADER_END == 336

\* The loop of cartridge_load without the terminator stored behind it.
cartridge_title_unterminated(data) ==
    LET byte(i) == IF HEADER_TITLE + i \in DOMAIN data THEN data[HEADER_TITLE + i] ELSE 0
        zeros == {i \in 0..14 : byte(i) = 0}
        stop == IF zeros = {} THEN 14 ELSE CHOOSE i \in zeros : \A j \in zeros : i <= j
    IN  [k \in 1..16 |-> IF k - 1 <= stop THEN byte(k - 1) ELSE Indeterminate]

\* current_cartridge->title[0..15] after the loop of cartridge_load: the bytes
\* from 0x134 up to and including the first zero among the first 15, then
\* title[15] = '\0'; the elements between keep what malloc returned.
cartridge_title(data) ==
    LET byte(i) == IF HEADER_TITLE + i \in DOMAIN data THEN data[HEADER_TITLE + i] ELSE 0
        zeros == {i \in 0..14 : byte(i) = 0}
        stop == IF zeros = {} THEN 14 ELSE CHOOSE i \in zeros : \A j \in zeros : i <= j
    IN  [k \in 1..16 |-> IF k - 1 <= stop THEN byte(k - 1)
                         ELSE IF k = 16 THEN 0 ELSE Indeterminate]

\* The string printf("%s") reads from title: the characters before the first
\* '\0', not determined when undetermined storage comes first.
TitleString(title) ==
    LET ends == {k \in 1..16 : title[k] = 0 \/ title[k] = Indeterminate}
        end == IF ends = {} THEN 17 ELSE CHOOSE k \in ends : \A j \in ends : k <= j
    IN  IF end = 17 \/ title[end] = Indeterminate
        THEN <<Indeterminate>>
        ELSE [k \in 1..(end - 1) |-> title[k]]

\* cartridge_free: both buffers released, current_cartridge = NULL.
cartridge_free(current) == NULL

\* The ways cartridge_load's calls into the C library can go: all succeed,
\* fopen returns NULL, either malloc returns NULL, fread returns less than size.
Faults == {"none", "fopen", "malloc_cartridge", "malloc_data", "fread"}

\* The object cartridge_load has built when fread returned: data holds the bytes
\* read, nothing has stored size, title or type.
PartialCartridge(file) ==
    [present |-> TRUE, size |-> Indeterminate,
     data |-> [a \in {x \in DOMAIN file.data : x < file.size \div 2} |-> file.data[a]],
     title |-> [k \in 1..16 |-> Indeterminate], type |-> Indeterminate]

\* cartridge_load returning after a short read without cartridge_free.
cartridge_load_keeping_partial(current, file, fault) ==
    CASE fault = "fopen" ->
           [ok |-> FALSE, cart |-> current, printed |-> <<"Failed to open ROM file">>]
      [] fault = "malloc_cartridge" ->
           [ok |-> FALSE, cart |-> NULL,
            printed |-> <<"Failed to allocate memory for cartridge">>]
      [] fault = "malloc_data" ->
           [ok |-> FALSE, cart |-> NULL,
            printed |-> <<"Failed to allocate memory for ROM data">>]
      [] fault = "fread" /\ file.size > 0 ->
           [ok |-> FALSE, cart |-> PartialCartridge(file),
            printed |-> <<"Failed to read ROM data">>]
      [] OTHER ->
           IF file.size >= HEADER_END
           THEN LET title == cartridge_title(file.data)
                    type == IF HEADER_TYPE \in DOMAIN file.data
                            THEN file.data[HEADER_TYPE] ELSE 0
                IN  [ok |-> TRUE,
                     cart |-> [present |-> TRUE, size |-> file.size, data |-> file.data,
                               title |-> title, type |-> type],
                     printed |-> <<"Loaded ROM", TitleString(title), type>>]
           ELSE [ok |-> TRUE,
                 cart |-> [present |-> TRUE, size |-> file.size, data |-> file.data,
                           title |-> [k \in 1..16 |-> Indeterminate],
                           type |-> Indeterminate],
                 printed |-> <<>>]

\* cartridge_load(filename): the result, current_cartridge and what is printed,
\* for the file behind the name and the way the library calls go.
cartridge_load(current, file, fault) ==
    CASE fault = "fopen" ->
           [ok |-> FALSE, cart |-> current, printed |-> <<"Failed to open ROM file">>]
      [] fault = "malloc_cartridge" ->
           [ok |-> FALSE, cart |-> NULL,
            printed |-> <<"Failed to allocate memory for cartridge">>]
      [] fault = "malloc_data" ->
           [ok |-> FALSE, cart |-> NULL,
            printed |-> <<"Failed to allocate memory for ROM data">>]
      [] fault = "fread" /\ file.size > 0 ->
           [ok |-> FALSE, cart |-> cartridge_free(PartialCartridge(file)),
            printed |-> <<"Failed to read ROM data">>]
      [] OTHER ->
           IF file.size >= HEADER_END
           THEN LET title == cartridge_title(file.data)
                    type == IF HEADER_TYPE \in DOMAIN file.data
                            THEN file.data[HEADER_TYPE] ELSE 0
                IN  [ok |-> TRUE,
                     cart |-> [present |-> TRUE, size |-> file.size, data |-> file.data,
                               title |-> title, type |-> type],
                     printed |-> <<"Loaded ROM", TitleString(title), type>>]
           ELSE [ok |-> TRUE,
                 cart |-> [present |-> TRUE, size |-> file.size, data |-> file.data,
                           title |-> [k \in 1..16 |-> Indeterminate],
                           type |-> Indeterminate],
                 printed |-> <<>>]

\* load_cartridge
load_cartridge(current, file, fault) ==
    cartridge_load(current, file, fault)

(***************************************************************************)
(* memory.c                                                                *)
(***************************************************************************)
\* memory[address] of the array m.
Peek(m, address) == IF address \in DOMAIN m THEN m[address] ELSE 0

\* memory[address] = value.
Poke(m, address, value) ==
    IF value = 0
    THEN [x \in DOMAIN m \ {address} |-> m[x]]
    ELSE [x \in DOMAIN m \cup {address} |-> IF x = address THEN value ELSE m[x]]

\* memory_init: every byte zero.
memory_init == [x \in {} |-> 0]

memory_read(m, address) ==
    IF address < \h8000
    THEN cartridge_read(address)
    ELSE Peek(m, address)

\* memory_write without the echo branch: the write stays at its own address.
memory_write_unmirrored(m, address, value) ==
    IF address < \h8000
    THEN m
    ELSE Poke(m, address, value)

\* memory_write without the ROM test: the write lands in the array.
memory_write_rom(m, address, value) ==
    IF address >= \hE000 /\ address < \hFE00
    THEN Poke(Poke(m, address, value), address - \h2000, value)
    ELSE Poke(m, address, value)

\* memory_write as the hardware's bus: a write to the divider clears it.
memory_write_div_reset(m, address, value) ==
    IF address < \h8000
    THEN m
    ELSE IF address >= \hE000 /\ address < \hFE00
         THEN Poke(Poke(m, address, value), address - \h2000, value)
         ELSE IF address = \hFF04
              THEN Poke(m, address, 0)
              ELSE Poke(m, address, value)

memory_write(m, address, value) ==
    IF address < \h8000
    THEN m
    ELSE IF address >= \hE000 /\ address < \hFE00
         THEN Poke(Poke(m, address, value), address - \h2000, value)
         ELSE Poke(m, address, value)

(***************************************************************************)
(* The PPU (the ppu.c revision in main.c, lines 215-510).                  *)
(***************************************************************************)
\* const char* pixel_chars[]: the two characters drawn for a shade 0..3.
pixel_chars == <<"  ", "..", "##", "@@">>

\* ppu_init's register writes, applied to the array m.
ppu_init_registers(m) ==
    LET m1 == memory_write(m, LCDC, \h91)
        m2 == memory_write(m1, STAT, 0)
        m3 == memory_write(m2, SCY, 0)
        m4 == memory_write(m3, SCX, 0)
        m5 == memory_write(m4, LY, 0)
        m6 == memory_write(m5, LYC, 0)
    IN  memory_write(m6, BGP, \hFC)

\* ppu_init's state: mode 0, line 0, nothing ready.
ppu_init_state ==
    [cycles |-> 0, mode |-> 0, line |-> 0, frame_ready |-> FALSE, frame_count |-> 0]

\* ppu_init's framebuffer: every pixel blank.
framebuffer_init == [y \in {} |-> <<>>]

\* ppu.framebuffer[line][pixel*2 .. pixel*2+1]
FbPixel(fb, line, pixel) ==
    IF line \in DOMAIN fb /\ pixel \in DOMAIN fb[line]
    THEN fb[line][pixel]
    ELSE pixel_chars[1]

\* The whole of row `line` replaced by r (the pixels of r that are not blank).
FbSetRow(fb, line, r) ==
    IF DOMAIN r = {}
    THEN [y \in DOMAIN fb \ {line} |-> fb[y]]
    ELSE [y \in DOMAIN fb \cup {line} |-> IF y = line THEN r ELSE fb[y]]

get_color(palette, color_id) == (palette \div (2 ^ (color_id * 2))) % 4

\* The address of the tile row render_scanline reads for background column bg_x:
\* the tile number from the map, then the row inside that tile's data.
TileLineAddr(m, bg_map_addr, tile_data_unsigned, tile_row, tile_y, bg_x) ==
    LET tile_col == bg_x \div 8
        tile_map_addr == U16(bg_map_addr + (tile_row * 32) + tile_col)
        tile_num == memory_read(m, tile_map_addr)
        tile_addr == IF tile_data_unsigned
                     THEN U16(TILE_DATA_TABLE_0 + (tile_num * 16))
                     ELSE U16(TILE_DATA_TABLE_2 + (Int8(tile_num) + 128) * 16)
    IN  U16(tile_addr + (tile_y * 2))

\* The body of render_scanline's loop with the tile row read from bit 0 upwards.
ScanlineColorLsbFirst(m, bg_map_addr, tile_data_unsigned, tile_row, tile_y, scroll_x, palette, pixel) ==
    LET bg_x == U8(pixel + scroll_x)
        tile_x == bg_x % 8
        line_addr == TileLineAddr(m, bg_map_addr, tile_data_unsigned, tile_row, tile_y, bg_x)
        low_byte == memory_read(m, line_addr)
        high_byte == memory_read(m, U16(line_addr + 1))
        bit_position == tile_x
        color_id == Bit(high_byte, bit_position) * 2 + Bit(low_byte, bit_position)
    IN  get_color(palette, color_id)

\* The body of render_scanline's loop: the shade of one pixel.
ScanlineColor(m, bg_map_addr, tile_data_unsigned, tile_row, tile_y, scroll_x, palette, pixel) ==
    LET bg_x == U8(pixel + scroll_x)
        tile_x == bg_x % 8
        line_addr == TileLineAddr(m, bg_map_addr, tile_data_unsigned, tile_row, tile_y, bg_x)
        low_byte == memory_read(m, line_addr)
        high_byte == memory_read(m, U16(line_addr + 1))
        bit_position == 7 - tile_x
        color_id == Bit(high_byte, bit_position) * 2 + Bit(low_byte, bit_position)
    IN  get_color(palette, color_id)

\* The shades render_scanline computes for the 160 pixels of a scanline.
ScanlineColors(m, line) ==
    LET lcdc == memory_read(m, LCDC)
        scroll_y == memory_read(m, SCY)
        scroll_x == memory_read(m, SCX)
        palette == memory_read(m, BGP)
        bg_map_addr == IF Bit(lcdc, 3) = 1 THEN BG_MAP_1 ELSE BG_MAP_0
        tile_data_unsigned == Bit(lcdc, 4) = 1
        bg_y == U8(line + scroll_y)
        tile_row == bg_y \div 8
        tile_y == bg_y % 8
    IN  [pixel \in 0..(GB_SCREEN_WIDTH - 1) |->
            ScanlineColor(m, bg_map_addr, tile_data_unsigned, tile_row, tile_y,
                          scroll_x, palette, pixel)]

render_scanline(m, fb, line) ==
    LET lcdc == memory_read(m, LCDC) IN
    IF Bit(lcdc, 7) = 0 \/ Bit(lcdc, 0) = 0
    THEN fb
    ELSE LET color == ScanlineColors(m, line)
             lit == {pixel \in 0..(GB_SCREEN_WIDTH - 1) : color[pixel] # 0}
         IN  FbSetRow(fb, line, [pixel \in lit |-> pixel_chars[color[pixel] + 1]])

\* ppu_render_frame leaving the flag set.
ppu_render_frame_keeping_flag(p) ==
    [p EXCEPT !.frame_count = p.frame_count + 1]

\* ppu_render_frame: the frame is printed, counted, and the flag reset.
ppu_render_frame(p) ==
    [p EXCEPT !.frame_count = p.frame_count + 1,
              !.frame_ready = FALSE]

ppu_is_frame_ready(p) == p.frame_ready

\* The STAT update that ends ppu_update.
UpdateStat(m, mode) ==
    LET stat == memory_read(m, STAT) IN
    memory_write(m, STAT, (stat - (stat % 8)) + mode)

\* The cycles ppu_update's modes last: OAM scan, pixel transfer, H-Blank, a V-Blank line.
PpuModePeriods == {80, 172, 204, 456}

\* case 0 of ppu_update with the flag raised at the end of every line.
PpuHBlankEveryLine(p, m, fb) ==
    IF p.cycles >= 204
    THEN LET line == U8(p.line + 1)
             m1 == memory_write(m, LY, line)
             fb1 == render_scanline(m1, fb, U8(line - 1))
         IN  [ppu |-> [p EXCEPT !.cycles = p.cycles - 204,
                                !.line = line,
                                !.mode = IF line = 144 THEN 1 ELSE 2,
                                !.frame_ready = TRUE],
              mem |-> m1, fb |-> fb1]
    ELSE [ppu |-> p, mem |-> m, fb |-> fb]

\* case 0 of ppu_update: H-Blank.
PpuHBlank(p, m, fb) ==
    IF p.cycles >= 204
    THEN LET line == U8(p.line + 1)
             m1 == memory_write(m, LY, line)
             fb1 == render_scanline(m1, fb, U8(line - 1))
         IN  [ppu |-> [p EXCEPT !.cycles = p.cycles - 204,
                                !.line = line,
                                !.mode = IF line = 144 THEN 1 ELSE 2,
                                !.frame_ready = IF line = 144 THEN TRUE ELSE p.frame_ready],
              mem |-> m1, fb |-> fb1]
    ELSE [ppu |-> p, mem |-> m, fb |-> fb]

\* case 1 of ppu_update with the wrap to line 0 one line late.
PpuVBlankWrappingLate(p, m, fb) ==
    IF p.cycles >= 456
    THEN LET line == U8(p.line + 1)
             m1 == memory_write(m, LY, line)
         IN  IF line > 154
             THEN [ppu |-> [p EXCEPT !.cycles = p.cycles - 456, !.line = 0, !.mode = 2],
                   mem |-> memory_write(m1, LY, 0), fb |-> fb]
             ELSE [ppu |-> [p EXCEPT !.cycles = p.cycles - 456, !.line = line],
                   mem |-> m1, fb |-> fb]
    ELSE [ppu |-> p, mem |-> m, fb |-> fb]

\* case 1 of ppu_update: V-Blank.
PpuVBlank(p, m, fb) ==
    IF p.cycles >= 456
    THEN LET line == U8(p.line + 1)
             m1 == memory_write(m, LY, line)
         IN  IF line > 153
             THEN [ppu |-> [p EXCEPT !.cycles = p.cycles - 456, !.line = 0, !.mode = 2],
                   mem |-> memory_write(m1, LY, 0), fb |-> fb]
             ELSE [ppu |-> [p EXCEPT !.cycles = p.cycles - 456, !.line = line],
                   mem |-> m1, fb |-> fb]
    ELSE [ppu |-> p, mem |-> m, fb |-> fb]

\* case 2 of ppu_update: OAM Scan.
PpuOamScan(p, m, fb) ==
    IF p.cycles >= 80
    THEN [ppu |-> [p EXCEPT !.cycles = p.cycles - 80, !.mode = 3], mem |-> m, fb |-> fb]
    ELSE [ppu |-> p, mem |-> m, fb |-> fb]

\* case 3 of ppu_update: Pixel Transfer.
PpuPixelTransfer(p, m, fb) ==
    IF p.cycles >= 172
    THEN [ppu |-> [p EXCEPT !.cycles = p.cycles - 172, !.mode = 0], mem |-> m, fb |-> fb]
    ELSE [ppu |-> p, mem |-> m, fb |-> fb]

\* ppu_update(cycles): the new PPU state, memory and framebuffer.
ppu_update(p, m, fb, cycles) ==
    LET p1 == [p EXCEPT !.cycles = U16(p.cycles + cycles)] IN
    IF Bit(memory_read(m, LCDC), 7) = 0
    THEN [ppu |-> p1, mem |-> m, fb |-> fb]
    ELSE LET r == CASE p1.mode = 0 -> PpuHBlank(p1, m, fb)
                    [] p1.mode = 1 -> PpuVBlank(p1, m, fb)
                    [] p1.mode = 2 -> PpuOamScan(p1, m, fb)
                    [] p1.mode = 3 -> PpuPixelTransfer(p1, m, fb)
                    [] OTHER -> [ppu |-> p1, mem |-> m, fb |-> fb]
         IN  [r EXCEPT !.mem = UpdateStat(r.mem, r.ppu.mode)]

(***************************************************************************)
(* timer.c                                                                 *)
(***************************************************************************)
timer_init_state == [divider_cycles |-> 0, timer_cycles |-> 0]

timer_init_registers(m) ==
    LET m1 == memory_write(m, DIV, 0)
        m2 == memory_write(m1, TIMA, 0)
        m3 == memory_write(m2, TMA, 0)
    IN  memory_write(m3, TAC, 0)

\* The threshold timer_update's switch selects from TAC bits 0-1.
TimerThreshold(tac) ==
    CASE tac % 4 = 0 -> 1024
      [] tac % 4 = 1 -> 16
      [] tac % 4 = 2 -> 64
      [] tac % 4 = 3 -> 256

\* The DIV half of timer_update.
TimerDivider(t, m, cycles) ==
    LET dc == U16(t.divider_cycles + cycles) IN
    IF dc >= 256
    THEN [timer |-> [t EXCEPT !.divider_cycles = dc - 256],
          mem |-> memory_write(m, DIV, U8(memory_read(m, DIV) + 1))]
    ELSE [timer |-> [t EXCEPT !.divider_cycles = dc], mem |-> m]

\* The TIMA half of timer_update with the overflow wrapping to zero, TMA ignored.
TimerCounterWraps(t, m, cycles) ==
    LET tac == memory_read(m, TAC) IN
    IF Bit(tac, 2) = 1
    THEN LET tc == U16(t.timer_cycles + cycles)
             threshold == TimerThreshold(tac)
         IN  IF tc >= threshold
             THEN [timer |-> [t EXCEPT !.timer_cycles = tc - threshold],
                   mem |-> memory_write(m, TIMA, U8(memory_read(m, TIMA) + 1))]
             ELSE [timer |-> [t EXCEPT !.timer_cycles = tc], mem |-> m]
    ELSE [timer |-> t, mem |-> m]

\* The TIMA half of timer_update.
TimerCounter(t, m, cycles) ==
    LET tac == memory_read(m, TAC) IN
    IF Bit(tac, 2) = 1
    THEN LET tc == U16(t.timer_cycles + cycles)
             threshold == TimerThreshold(tac)
         IN  IF tc >= threshold
             THEN LET tima == memory_read(m, TIMA) IN
                  [timer |-> [t EXCEPT !.timer_cycles = tc - threshold],
                   mem |-> IF tima = \hFF
                           THEN memory_write(m, TIMA, memory_read(m, TMA))
                           ELSE memory_write(m, TIMA, tima + 1)]
             ELSE [timer |-> [t EXCEPT !.timer_cycles = tc], mem |-> m]
    ELSE [timer |-> t, mem |-> m]

\* timer_update(cycles): the new timer state and memory.
timer_update(t, m, cycles) ==
    LET d == TimerDivider(t, m, cycles) IN
    TimerCounter(d.timer, d.mem, cycles)

(***************************************************************************)
(* input.c                                                                 *)
(***************************************************************************)
input_init_state == [buttons |-> \h0F, directions |-> \h0F]

input_init_registers(m) == memory_write(m, JOYPAD_REG, \hFF)

\* The characters the terminal may deliver to one input_update; "" is no key.
Keys == {"", "k", "K"}

\* input_update's switch on the key read.
InputKey(st, ch) ==
    CASE ch = "w" -> [st EXCEPT !.directions = ClearBit(st.directions, 2)]
      [] ch = "s" -> [st EXCEPT !.directions = ClearBit(st.directions, 3)]
      [] ch = "a" -> [st EXCEPT !.directions = ClearBit(st.directions, 1)]
      [] ch = "d" -> [st EXCEPT !.directions = ClearBit(st.directions, 0)]
      [] ch = "j" -> [st EXCEPT !.buttons = ClearBit(st.buttons, 1)]
      [] ch = "k" -> [st EXCEPT !.buttons = ClearBit(st.buttons, 0)]
      [] ch = "n" -> [st EXCEPT !.buttons = ClearBit(st.buttons, 2)]
      [] ch = "m" -> [st EXCEPT !.buttons = ClearBit(st.buttons, 3)]
      [] ch = "W" -> [st EXCEPT !.directions = SetBit(st.directions, 2)]
      [] ch = "S" -> [st EXCEPT !.directions = SetBit(st.directions, 3)]
      [] ch = "A" -> [st EXCEPT !.directions = SetBit(st.directions, 1)]
      [] ch = "D" -> [st EXCEPT !.directions = SetBit(st.directions, 0)]
      [] ch = "J" -> [st EXCEPT !.buttons = SetBit(st.buttons, 1)]
      [] ch = "K" -> [st EXCEPT !.buttons = SetBit(st.buttons, 0)]
      [] ch = "N" -> [st EXCEPT !.buttons = SetBit(st.buttons, 2)]
      [] ch = "M" -> [st EXCEPT !.buttons = SetBit(st.buttons, 3)]
      [] OTHER -> st

\* input_update with the key ch pending: the new input state and memory.
input_update(st, m, ch) ==
    LET st1 == InputKey(st, ch)
        joypad == memory_read(m, JOYPAD_REG)
        high == joypad - (joypad % 16)
        joypad1 == IF Bit(joypad, 4) = 0 THEN high + st1.directions
                   ELSE IF Bit(joypad, 5) = 0 THEN high + st1.buttons
                   ELSE high + \h0F
    IN  [input |-> st1, mem |-> memory_write(m, JOYPAD_REG, joypad1)]

(***************************************************************************)
(* cpu.c                                                                   *)
(***************************************************************************)
cpu_init_state ==
    [a |-> \h01, f |-> \hB0, b |-> \h00, c |-> \h13, d |-> \h00, e |-> \hD8,
     h |-> \h01, l |-> \h4D, pc |-> \h0100, sp |-> \hFFFE,
     halted |-> FALSE, interrupts_enabled |-> FALSE]

get_hl(c) == c.h * 256 + c.l

\* The opcodes that have a case in cpu_execute_instruction's switch.
Implemented ==
    {\h00,\h01,\h02,\h03,\h04,\h05,\h06,\h07,\h08,\h09,\h0A,\h0B,\h0C,\h0D,\h0E,\h0F,
     \h11,\h12,\h13,\h14,\h15,\h16,\h17,\h18,\h19,\h1A,\h1B,\h1C,\h1D,\h1E,\h1F,
     \h20,\h21,\h22,\h23,\h24,\h25,\h26,\h27,\h28,\h29,\h2A,\h2C,\h2F,
     \h31,\h32,\h35,\h36,\h37,\h3D,\h3E,\h44,\h47,\h4F,\h56,\h57,\h5E,\h5F,
     \h67,\h6F,\h77,\h78,\h79,\h7A,\h7B,\h7C,\h7D,\h7E,\h7F,\h87,
     \hA1,\hA7,\hA9,\hAE,\hAF,\hB0,\hB1,\hB7,\hBE,
     \hC0,\hC1,\hC2,\hC3,\hC5,\hC6,\hC8,\hC9,\hCA,\hCB,\hCC,\hCD,\hCE,
     \hD0,\hD1,\hD2,\hD4,\hD5,\hD6,\hD8,\hDA,\hDC,\hDE,
     \hE0,\hE1,\hE2,\hE5,\hE6,\hE9,\hEA,\hEF,\hF0,\hF2,\hF3,\hF5,\hFA,\hFB,\hFE}

\* The byte and the word cpu_fetch_byte and cpu_fetch_word read at pc.
FetchByte(c, m) == memory_read(m, c.pc)
FetchWord(c, m) == memory_read(m, U16(c.pc + 1)) * 256 + memory_read(m, c.pc)
\* pc counted without the 16-bit wrap.
AdvanceUnwrapped(c, n) ==
    [c EXCEPT !.pc = c.pc + n]

\* pc after n bytes were fetched.
Advance(c, n) ==
    [c EXCEPT !.pc = U16(c.pc + n)]

\* get_flag(flag), and the byte `flag` when the condition holds (cond ? flag : 0).
get_flag(c, flag) == (c.f \div flag) % 2 = 1
FlagIf(cond, flag) == IF cond THEN flag ELSE 0

\* cpu.f & flag.
KeepFlag(c, flag) == FlagIf(get_flag(c, flag), flag)

get_bc(c) == c.b * 256 + c.c
get_de(c) == c.d * 256 + c.e

(***************************************************************************)
(* 8-bit INC and DEC, LD r,d8.                                             *)
(***************************************************************************)
\* The register each INC r, DEC r and LD r,d8 case names.
IncOps == [x \in {\h04, \h0C, \h14, \h1C, \h24, \h2C} |->
             CASE x = \h04 -> "b" [] x = \h0C -> "c" [] x = \h14 -> "d"
               [] x = \h1C -> "e" [] x = \h24 -> "h" [] x = \h2C -> "l"]
DecOps == [x \in {\h05, \h0D, \h15, \h1D, \h25, \h3D} |->
             CASE x = \h05 -> "b" [] x = \h0D -> "c" [] x = \h15 -> "d"
               [] x = \h1D -> "e" [] x = \h25 -> "h" [] x = \h3D -> "a"]
LdImmOps == [x \in {\h06, \h0E, \h16, \h1E, \h26} |->
             CASE x = \h06 -> "b" [] x = \h0E -> "c" [] x = \h16 -> "d"
               [] x = \h1E -> "e" [] x = \h26 -> "h"]

\* The flags an INC leaves: C kept, Z and H from the result.
IncFlags(c, result) ==
    KeepFlag(c, FLAG_C) + FlagIf(result = 0, FLAG_Z) + FlagIf(result % 16 = 0, FLAG_H)

\* The flags a DEC leaves, H from the result's low nibble instead of the operand's.
DecFlagsFromResult(c, value, result) ==
    KeepFlag(c, FLAG_C) + FLAG_N + FlagIf(result % 16 = 0, FLAG_H)
        + FlagIf(result = 0, FLAG_Z)

\* The flags a DEC leaves: C kept, N set, H from the operand, Z from the result.
DecFlags(c, value, result) ==
    KeepFlag(c, FLAG_C) + FLAG_N + FlagIf(value % 16 = 0, FLAG_H)
        + FlagIf(result = 0, FLAG_Z)

\* case 0x04, 0x0C, 0x14, 0x1C, 0x24, 0x2C: INC r.
IncR(c, r) ==
    LET result == U8(c[r] + 1) IN
    [[c EXCEPT ![r] = result] EXCEPT !.f = IncFlags(c, result)]

\* case 0x05, 0x0D, 0x15, 0x1D, 0x25, 0x3D: DEC r.
DecR(c, r) ==
    LET result == U8(c[r] - 1) IN
    [[c EXCEPT ![r] = result] EXCEPT !.f = DecFlags(c, c[r], result)]

\* case 0x35: DEC (HL).
DecHL(c, m) ==
    LET value == memory_read(m, get_hl(c))
        result == U8(value - 1)
    IN  [cpu |-> [c EXCEPT !.f = DecFlags(c, value, result)],
         mem |-> memory_write(m, get_hl(c), result)]

(***************************************************************************)
(* 8-bit addition, subtraction and comparison with the accumulator.        *)
(***************************************************************************)
\* ADD/ADC with the half carry computed without the carry-in.
AddAHalfWithoutCarry(c, value, carry) ==
    LET result == c.a + value + carry IN
    [c EXCEPT !.a = result % 256,
              !.f = FlagIf(result % 256 = 0, FLAG_Z) + FlagIf(result > \hFF, FLAG_C)
                      + FlagIf((c.a % 16) + (value % 16) > \h0F, FLAG_H)]

\* case 0x87, 0xC6, 0xCE: A = A + value + carry.
AddA(c, value, carry) ==
    LET result == c.a + value + carry IN
    [c EXCEPT !.a = result % 256,
              !.f = FlagIf(result % 256 = 0, FLAG_Z) + FlagIf(result > \hFF, FLAG_C)
                      + FlagIf((c.a % 16) + (value % 16) + carry > \h0F, FLAG_H)]

\* SUB/SBC leaving H clear.
SubAWithoutHalfBorrow(c, value, carry) ==
    LET result == U8(c.a - value - carry) IN
    [c EXCEPT !.a = result,
              !.f = FLAG_N + FlagIf(result = 0, FLAG_Z)
                      + FlagIf(c.a < value + carry, FLAG_C)]

\* case 0xD6, 0xDE: A = A - value - carry.
SubA(c, value, carry) ==
    LET result == U8(c.a - value - carry) IN
    [c EXCEPT !.a = result,
              !.f = FLAG_N + FlagIf(result = 0, FLAG_Z)
                      + FlagIf((c.a % 16) < (value % 16) + carry, FLAG_H)
                      + FlagIf(c.a < value + carry, FLAG_C)]

\* case 0xBE, 0xFE: the flags of A - value, the result discarded.
CpA(c, value) == [c EXCEPT !.f = SubA(c, value, 0).f]

\* get_flag(FLAG_C) ? 1 : 0.
CarryIn(c) == IF get_flag(c, FLAG_C) THEN 1 ELSE 0

AluOps == {\h87, \hBE, \hC6, \hCE, \hD6, \hDE, \hFE}

\* The cases of AluOps; c1 is the CPU after the opcode fetch, d8 the byte at pc.
ExecAlu(opcode, c1, m, d8) ==
    CASE opcode = \h87 -> AddA(c1, c1.a, 0)
      [] opcode = \hBE -> CpA(c1, memory_read(m, get_hl(c1)))
      [] opcode = \hC6 -> AddA(Advance(c1, 1), d8, 0)
      [] opcode = \hCE -> AddA(Advance(c1, 1), d8, CarryIn(c1))
      [] opcode = \hD6 -> SubA(Advance(c1, 1), d8, 0)
      [] opcode = \hDE -> SubA(Advance(c1, 1), d8, CarryIn(c1))
      [] opcode = \hFE -> CpA(Advance(c1, 1), d8)

(***************************************************************************)
(* 16-bit addition to HL.                                                  *)
(***************************************************************************)
\* ADD HL,rr with the half carry taken out of bit 7 instead of bit 11.
AddHLHalfFromLowByte(c, value) ==
    LET result == get_hl(c) + value IN
    [c EXCEPT !.h = (result % 65536) \div 256,
              !.l = result % 256,
              !.f = KeepFlag(c, FLAG_Z) + FlagIf(result > \hFFFF, FLAG_C)
                      + FlagIf((get_hl(c) % 256) + (value % 256) > \h00FF, FLAG_H)]

\* case 0x09, 0x19, 0x29: HL = HL + value.
AddHL(c, value) ==
    LET result == get_hl(c) + value IN
    [c EXCEPT !.h = (result % 65536) \div 256,
              !.l = result % 256,
              !.f = KeepFlag(c, FLAG_Z) + FlagIf(result > \hFFFF, FLAG_C)
                      + FlagIf((get_hl(c) % 4096) + (value % 4096) > \h0FFF, FLAG_H)]

AddHLOps == {\h09, \h19, \h29}

ExecAddHL(opcode, c1) ==
    CASE opcode = \h09 -> AddHL(c1, get_bc(c1))
      [] opcode = \h19 -> AddHL(c1, get_de(c1))
      [] opcode = \h29 -> AddHL(c1, get_hl(c1))

(***************************************************************************)
(* DAA and the accumulator rotates.                                        *)
(***************************************************************************)
\* The correction DAA applies: 0x06, 0x60 or both.
DaaCorrection(c) ==
    (IF get_flag(c, FLAG_H) \/ (~get_flag(c, FLAG_N) /\ c.a % 16 > 9) THEN \h06 ELSE 0)
      + (IF get_flag(c, FLAG_C) \/ (~get_flag(c, FLAG_N) /\ c.a > \h99) THEN \h60 ELSE 0)

\* DAA adding the correction whatever N is.
DaaAlwaysAdds(c) ==
    LET correction == DaaCorrection(c)
        a == U8(c.a + correction)
    IN  [c EXCEPT !.a = a,
                  !.f = KeepFlag(c, FLAG_N) + FlagIf(a = 0, FLAG_Z)
                          + FlagIf(correction >= \h60, FLAG_C)]

\* case 0x27: DAA.
Daa(c) ==
    LET correction == DaaCorrection(c)
        a == IF get_flag(c, FLAG_N) THEN U8(c.a - correction) ELSE U8(c.a + correction)
    IN  [c EXCEPT !.a = a,
                  !.f = KeepFlag(c, FLAG_N) + FlagIf(a = 0, FLAG_Z)
                          + FlagIf(correction >= \h60, FLAG_C)]

\* case 0x07: RLCA.
Rlca(c) ==
    LET carry == c.a \div 128 IN
    [c EXCEPT !.a = U8(c.a * 2) + carry, !.f = FlagIf(carry = 1, FLAG_C)]

\* RRCA as a plain shift: bit 0 goes to C alone.
RrcaShiftsOut(c) ==
    [c EXCEPT !.a = c.a \div 2, !.f = FlagIf(c.a % 2 = 1, FLAG_C)]

\* case 0x0F: RRCA.
Rrca(c) ==
    LET carry == c.a % 2 IN
    [c EXCEPT !.a = (c.a \div 2) + (carry * \h80), !.f = FlagIf(carry = 1, FLAG_C)]

\* RLA taking the new carry into bit 0, as RLCA does.
RlaCircular(c) ==
    [c EXCEPT !.a = U8(c.a * 2) + (c.a \div 128), !.f = FlagIf(c.a >= \h80, FLAG_C)]

\* case 0x17: RLA.
Rla(c) ==
    LET old_carry == CarryIn(c) IN
    [c EXCEPT !.a = U8(c.a * 2) + old_carry, !.f = FlagIf(c.a >= \h80, FLAG_C)]

\* case 0x1F: RRA.
Rra(c) ==
    LET old_carry == IF get_flag(c, FLAG_C) THEN \h80 ELSE 0 IN
    [c EXCEPT !.a = (c.a \div 2) + old_carry, !.f = FlagIf(c.a % 2 = 1, FLAG_C)]

RotateOps == {\h07, \h0F, \h17, \h1F}

ExecRotate(opcode, c1) ==
    CASE opcode = \h07 -> Rlca(c1)
      [] opcode = \h0F -> Rrca(c1)
      [] opcode = \h17 -> Rla(c1)
      [] opcode = \h1F -> Rra(c1)

(***************************************************************************)
(* The stack: PUSH, POP, CALL, RET.                                        *)
(***************************************************************************)
\* A push storing the low byte first, at sp-1, and the high byte at sp-2.
PushLowFirst(c, m, high, low) ==
    LET sp1 == U16(c.sp - 1)
        sp2 == U16(sp1 - 1)
    IN  [cpu |-> [c EXCEPT !.sp = sp2],
         mem |-> memory_write(memory_write(m, sp1, low), sp2, high)]

\* cpu.sp--; memory_write(cpu.sp, high); cpu.sp--; memory_write(cpu.sp, low).
Push(c, m, high, low) ==
    LET sp1 == U16(c.sp - 1)
        sp2 == U16(sp1 - 1)
    IN  [cpu |-> [c EXCEPT !.sp = sp2],
         mem |-> memory_write(memory_write(m, sp1, high), sp2, low)]

\* low = memory_read(cpu.sp++); high = memory_read(cpu.sp++).
Pop(c, m) ==
    [cpu |-> [c EXCEPT !.sp = U16(c.sp + 2)],
     low |-> memory_read(m, c.sp),
     high |-> memory_read(m, U16(c.sp + 1))]

\* case 0xC5: PUSH BC.
PushBC(c1, m) == Push(c1, m, c1.b, c1.c)

\* case 0xD1: POP DE.
PopDE(c1, m) ==
    LET r == Pop(c1, m) IN
    [cpu |-> [r.cpu EXCEPT !.d = r.high, !.e = r.low], mem |-> m]

\* CALL pushing the address of its own operand instead of the next instruction's.
CallPushingOperandAddress(c1, m, addr) ==
    LET r == Push(Advance(c1, 2), m, c1.pc \div 256, c1.pc % 256) IN
    [cpu |-> [r.cpu EXCEPT !.pc = addr], mem |-> r.mem]

\* case 0xCD, and the taken branch of 0xCC, 0xD4, 0xDC: pc pushed, pc = addr.
Call(c1, m, addr) ==
    LET c3 == Advance(c1, 2)
        r == Push(c3, m, c3.pc \div 256, c3.pc % 256)
    IN  [cpu |-> [r.cpu EXCEPT !.pc = addr], mem |-> r.mem]

\* case 0xC9, and the taken branch of 0xC0, 0xC8, 0xD0, 0xD8: pc popped.
Ret(c1, m) ==
    LET r == Pop(c1, m) IN
    [cpu |-> [r.cpu EXCEPT !.pc = r.high * 256 + r.low], mem |-> m]

(***************************************************************************)
(* Jumps, and the conditional forms.                                       *)
(***************************************************************************)
\* offset = (int8_t)cpu_fetch_byte(); cpu.pc += offset.
Jr(c1, d8) ==
    LET c2 == Advance(c1, 1) IN
    [c2 EXCEPT !.pc = U16(c2.pc + Int8(d8))]

JrOps == {\h20, \h28}
JpOps == {\hC2, \hCA, \hD2, \hDA}
CallOps == {\hCC, \hD4, \hDC}
RetOps == {\hC0, \hC8, \hD0, \hD8}

\* The flag test of each conditional case.
Taken(opcode, c) ==
    CASE opcode \in {\h20, \hC0, \hC2} -> ~get_flag(c, FLAG_Z)
      [] opcode \in {\h28, \hC8, \hCA, \hCC} -> get_flag(c, FLAG_Z)
      [] opcode \in {\hD0, \hD2, \hD4} -> ~get_flag(c, FLAG_C)
      [] opcode \in {\hD8, \hDA, \hDC} -> get_flag(c, FLAG_C)

\* The conditional cases; c1 is the CPU after the opcode fetch.
ExecConditional(opcode, c1, m, d8, d16) ==
    CASE opcode \in JrOps ->
            [cpu |-> IF Taken(opcode, c1) THEN Jr(c1, d8) ELSE Advance(c1, 1), mem |-> m]
      [] opcode \in JpOps ->
            [cpu |-> IF Taken(opcode, c1) THEN [c1 EXCEPT !.pc = d16] ELSE Advance(c1, 2),
             mem |-> m]
      [] opcode \in CallOps ->
            IF Taken(opcode, c1) THEN Call(c1, m, d16)
            ELSE [cpu |-> Advance(c1, 2), mem |-> m]
      [] opcode \in RetOps ->
            IF Taken(opcode, c1) THEN Ret(c1, m) ELSE [cpu |-> c1, mem |-> m]

(***************************************************************************)
(* Loads, 16-bit INC and DEC, logic, the other pushes and pops.            *)
(***************************************************************************)
\* x & y, x | y and x ^ y on bytes.
And8(x, y) ==
    (Bit(x, 0) * Bit(y, 0)) + 2 * (Bit(x, 1) * Bit(y, 1))
      + 4 * (Bit(x, 2) * Bit(y, 2)) + 8 * (Bit(x, 3) * Bit(y, 3))
      + 16 * (Bit(x, 4) * Bit(y, 4)) + 32 * (Bit(x, 5) * Bit(y, 5))
      + 64 * (Bit(x, 6) * Bit(y, 6)) + 128 * (Bit(x, 7) * Bit(y, 7))
Or8(x, y) == x + y - And8(x, y)
Xor8(x, y) == x + y - 2 * And8(x, y)

set_bc(c, value) == [c EXCEPT !.b = value \div 256, !.c = value % 256]
set_de(c, value) == [c EXCEPT !.d = value \div 256, !.e = value % 256]
set_hl(c, value) == [c EXCEPT !.h = value \div 256, !.l = value % 256]

\* cases 0x44 .. 0x7F without a memory operand: destination and source register.
LdRegOps ==
    [opcode \in {\h44, \h47, \h4F, \h57, \h5F, \h67, \h6F,
                  \h78, \h79, \h7A, \h7B, \h7C, \h7D, \h7F} |->
       CASE opcode = \h44 -> <<"b", "h">>
         [] opcode = \h47 -> <<"b", "a">>
         [] opcode = \h4F -> <<"c", "a">>
         [] opcode = \h57 -> <<"d", "a">>
         [] opcode = \h5F -> <<"e", "a">>
         [] opcode = \h67 -> <<"h", "a">>
         [] opcode = \h6F -> <<"l", "a">>
         [] opcode = \h78 -> <<"a", "b">>
         [] opcode = \h79 -> <<"a", "c">>
         [] opcode = \h7A -> <<"a", "d">>
         [] opcode = \h7B -> <<"a", "e">>
         [] opcode = \h7C -> <<"a", "h">>
         [] opcode = \h7D -> <<"a", "l">>
         [] opcode = \h7F -> <<"a", "a">>]

\* AND: Z from the result, H set; XOR and OR: Z from the result.
AndA(c, value) ==
    LET result == And8(c.a, value) IN
    [c EXCEPT !.a = result, !.f = FlagIf(result = 0, FLAG_Z) + FLAG_H]
XorA(c, value) ==
    LET result == Xor8(c.a, value) IN
    [c EXCEPT !.a = result, !.f = FlagIf(result = 0, FLAG_Z)]
OrA(c, value) ==
    LET result == Or8(c.a, value) IN
    [c EXCEPT !.a = result, !.f = FlagIf(result = 0, FLAG_Z)]

LogicOps == {\hA1, \hA7, \hA9, \hAE, \hAF, \hB0, \hB1, \hB7, \hE6}

ExecLogic(opcode, c1, m, d8) ==
    CASE opcode = \hA1 -> AndA(c1, c1.c)
      [] opcode = \hA7 -> [c1 EXCEPT !.f = FlagIf(c1.a = 0, FLAG_Z) + FLAG_H]
      [] opcode = \hA9 -> XorA(c1, c1.c)
      [] opcode = \hAE -> XorA(c1, memory_read(m, get_hl(c1)))
      [] opcode = \hAF -> [c1 EXCEPT !.a = 0, !.f = FLAG_Z]
      [] opcode = \hB0 -> OrA(c1, c1.b)
      [] opcode = \hB1 -> OrA(c1, c1.c)
      [] opcode = \hB7 -> [c1 EXCEPT !.f = FlagIf(c1.a = 0, FLAG_Z)]
      [] opcode = \hE6 -> AndA(Advance(c1, 1), d8)

MoveOps ==
    {\h01, \h02, \h03, \h08, \h0A, \h0B, \h11, \h12, \h13, \h1A, \h1B, \h22, \h23,
     \h2A, \h2F, \h31, \h32, \h37, \h56, \h5E, \hC1, \hD5, \hE1, \hE2, \hE5, \hE9,
     \hEF, \hF2, \hF5}

\* The cases of MoveOps; c1 is the CPU after the opcode fetch.
ExecMove(opcode, c1, m, d16) ==
    LET same(c) == [cpu |-> c, mem |-> m]
        popped == Pop(c1, m)
    IN  CASE opcode = \h01 -> same(set_bc(Advance(c1, 2), d16))
          [] opcode = \h11 -> same(set_de(Advance(c1, 2), d16))
          [] opcode = \h31 -> same([Advance(c1, 2) EXCEPT !.sp = d16])
          [] opcode = \h02 -> [cpu |-> c1, mem |-> memory_write(m, get_bc(c1), c1.a)]
          [] opcode = \h12 -> [cpu |-> c1, mem |-> memory_write(m, get_de(c1), c1.a)]
          [] opcode = \h22 -> [cpu |-> set_hl(c1, U16(get_hl(c1) + 1)),
                                mem |-> memory_write(m, get_hl(c1), c1.a)]
          [] opcode = \h32 -> [cpu |-> set_hl(c1, U16(get_hl(c1) + 65535)),
                                mem |-> memory_write(m, get_hl(c1), c1.a)]
          [] opcode = \h08 ->
                [cpu |-> Advance(c1, 2),
                 mem |-> memory_write(memory_write(m, d16, c1.sp % 256),
                                      U16(d16 + 1), c1.sp \div 256)]
          [] opcode = \h0A -> same([c1 EXCEPT !.a = memory_read(m, get_bc(c1))])
          [] opcode = \h1A -> same([c1 EXCEPT !.a = memory_read(m, get_de(c1))])
          [] opcode = \h2A ->
                same(set_hl([c1 EXCEPT !.a = memory_read(m, get_hl(c1))],
                            U16(get_hl(c1) + 1)))
          [] opcode = \h56 -> same([c1 EXCEPT !.d = memory_read(m, get_hl(c1))])
          [] opcode = \h5E -> same([c1 EXCEPT !.e = memory_read(m, get_hl(c1))])
          [] opcode = \h03 -> same(set_bc(c1, U16(get_bc(c1) + 1)))
          [] opcode = \h0B -> same(set_bc(c1, U16(get_bc(c1) + 65535)))
          [] opcode = \h13 -> same(set_de(c1, U16(get_de(c1) + 1)))
          [] opcode = \h1B -> same(set_de(c1, U16(get_de(c1) + 65535)))
          [] opcode = \h23 -> same(set_hl(c1, U16(get_hl(c1) + 1)))
          [] opcode = \h2F ->
                same([c1 EXCEPT !.a = 255 - c1.a, !.f = Or8(c1.f, FLAG_N + FLAG_H)])
          [] opcode = \h37 -> same([c1 EXCEPT !.f = KeepFlag(c1, FLAG_Z) + FLAG_C])
          [] opcode = \hC1 -> same(set_bc(popped.cpu, popped.high * 256 + popped.low))
          [] opcode = \hE1 -> same(set_hl(popped.cpu, popped.high * 256 + popped.low))
          [] opcode = \hD5 -> Push(c1, m, c1.d, c1.e)
          [] opcode = \hE5 -> Push(c1, m, c1.h, c1.l)
          [] opcode = \hF5 -> Push(c1, m, c1.a, c1.f)
          [] opcode = \hE2 -> [cpu |-> c1, mem |-> memory_write(m, \hFF00 + c1.c, c1.a)]
          [] opcode = \hF2 -> same([c1 EXCEPT !.a = memory_read(m, \hFF00 + c1.c)])
          [] opcode = \hE9 -> same([c1 EXCEPT !.pc = get_hl(c1)])
          [] opcode = \hEF ->
                LET r == Push(c1, m, c1.pc \div 256, c1.pc % 256) IN
                [cpu |-> [r.cpu EXCEPT !.pc = \h0028], mem |-> r.mem]

(***************************************************************************)
(* The CB prefix.                                                          *)
(***************************************************************************)
\* The second bytes that have a case in the inner switch.
CbImplemented ==
    {\h07, \h0F, \h17, \h1F, \h27, \h2F, \h37, \h3F} \cup (\h40 .. \h7F) \cup {\h87, \hC7}

\* RLC A, RRC A, RL A, RR A, SLA A, SRA A, SWAP A, SRL A: C from the bit shifted
\* out (cleared by SWAP), Z from the result, N and H cleared.
CbShiftA(cb_opcode, c) ==
    LET a == c.a
        old_carry == IF get_flag(c, FLAG_C) THEN 1 ELSE 0
        out == CASE cb_opcode \in {\h07, \h17, \h27} -> a \div 128
                 [] cb_opcode \in {\h0F, \h1F, \h2F, \h3F} -> a % 2
                 [] cb_opcode = \h37 -> 0
        result == CASE cb_opcode = \h07 -> U8(a * 2) + (a \div 128)
                    [] cb_opcode = \h0F -> (a \div 2) + 128 * (a % 2)
                    [] cb_opcode = \h17 -> U8(a * 2) + old_carry
                    [] cb_opcode = \h1F -> (a \div 2) + 128 * old_carry
                    [] cb_opcode = \h27 -> U8(a * 2)
                    [] cb_opcode = \h2F -> (a \div 2) + 128 * (a \div 128)
                    [] cb_opcode = \h37 -> (a % 16) * 16 + (a \div 16)
                    [] cb_opcode = \h3F -> a \div 2
    IN  [c EXCEPT !.a = result,
                  !.f = FlagIf(out = 1, FLAG_C) + FlagIf(result = 0, FLAG_Z)]

\* switch (reg) of the BIT cases: B, C, D, E, H, L, (HL), A.
CbOperand(c, m, reg) ==
    CASE reg = 0 -> c.b
      [] reg = 1 -> c.c
      [] reg = 2 -> c.d
      [] reg = 3 -> c.e
      [] reg = 4 -> c.h
      [] reg = 5 -> c.l
      [] reg = 6 -> memory_read(m, get_hl(c))
      [] reg = 7 -> c.a

\* BIT that leaves H as it was.
CbBitKeepingH(cb_opcode, c, m) ==
    LET value == CbOperand(c, m, (cb_opcode - \h40) % 8) IN
    [c EXCEPT !.f = KeepFlag(c, FLAG_C) + KeepFlag(c, FLAG_H)
                      + FlagIf(Bit(value, (cb_opcode - \h40) \div 8) = 0, FLAG_Z)]

\* cases 0x40 .. 0x7F: cpu.f = (cpu.f & FLAG_C) | FLAG_H | (bit set ? 0 : FLAG_Z).
CbBit(cb_opcode, c, m) ==
    LET bit == (cb_opcode - \h40) \div 8
        reg == (cb_opcode - \h40) % 8
        value == CbOperand(c, m, reg)
    IN  [c EXCEPT !.f = KeepFlag(c, FLAG_C) + FLAG_H + FlagIf(Bit(value, bit) = 0, FLAG_Z)]

\* case 0xCB; c1 is the CPU after the opcode fetch, c2 after the second byte.
ExecCb(c1, m) ==
    LET cb_opcode == FetchByte(c1, m)
        c2 == Advance(c1, 1)
    IN  CASE cb_opcode \in {\h07, \h0F, \h17, \h1F, \h27, \h2F, \h37, \h3F} ->
                CbShiftA(cb_opcode, c2)
          [] cb_opcode \in \h40 .. \h7F -> CbBit(cb_opcode, c2, m)
          [] cb_opcode = \h87 -> [c2 EXCEPT !.a = ClearBit(c2.a, 0)]
          [] cb_opcode = \hC7 -> [c2 EXCEPT !.a = SetBit(c2.a, 0)]
          [] OTHER -> c2

\* What the step prints on stdout: the default of the inner switch prints the
\* second byte and cpu.pc - 2; the outer switch has no default.  The logger is
\* never opened, so LOG_DEBUG writes nothing.
cpu_diagnostic(c, m) ==
    IF ~c.halted /\ FetchByte(c, m) = \hCB
         /\ FetchByte(Advance(c, 1), m) \notin CbImplemented
    THEN <<FetchByte(Advance(c, 1), m), U16(c.pc + 2) - 2>>
    ELSE <<>>

\* The cases of the switch translated below.
Decoded ==
    {\h00, \h18, \h21, \h36, \h3E, \h77, \h7E, \hC3, \hE0, \hEA, \hF0, \hF3, \hFA, \hFB}
      \cup DOMAIN IncOps \cup DOMAIN DecOps \cup DOMAIN LdImmOps \cup {\h35}
      \cup AluOps \cup AddHLOps \cup {\h27} \cup RotateOps
      \cup {\hC5, \hD1, \hC9, \hCD} \cup JrOps \cup JpOps \cup CallOps \cup RetOps
      \cup DOMAIN LdRegOps \cup LogicOps \cup MoveOps \cup {\hCB}

\* cpu_execute_instruction: the new CPU state and memory.
cpu_execute_instruction(c, m) ==
    LET opcode == FetchByte(c, m)
        c1 == Advance(c, 1)
        d8 == FetchByte(c1, m)
        d16 == FetchWord(c1, m)
    IN  CASE opcode = \h00 -> [cpu |-> c1, mem |-> m]
          [] opcode \in DOMAIN IncOps -> [cpu |-> IncR(c1, IncOps[opcode]), mem |-> m]
          [] opcode \in DOMAIN DecOps -> [cpu |-> DecR(c1, DecOps[opcode]), mem |-> m]
          [] opcode \in DOMAIN LdImmOps ->
                [cpu |-> [Advance(c1, 1) EXCEPT ![LdImmOps[opcode]] = d8], mem |-> m]
          [] opcode = \h35 -> DecHL(c1, m)
          [] opcode = \h27 -> [cpu |-> Daa(c1), mem |-> m]
          [] opcode = \hC5 -> PushBC(c1, m)
          [] opcode = \hD1 -> PopDE(c1, m)
          [] opcode \in RotateOps -> [cpu |-> ExecRotate(opcode, c1), mem |-> m]
          [] opcode \in AddHLOps -> [cpu |-> ExecAddHL(opcode, c1), mem |-> m]
          [] opcode \in AluOps -> [cpu |-> ExecAlu(opcode, c1, m, d8), mem |-> m]
          [] opcode = \h18 -> [cpu |-> Jr(c1, d8), mem |-> m]
          [] opcode = \hC9 -> Ret(c1, m)
          [] opcode = \hCD -> Call(c1, m, d16)
          [] opcode \in JrOps \cup JpOps \cup CallOps \cup RetOps ->
                ExecConditional(opcode, c1, m, d8, d16)
          [] opcode \in DOMAIN LdRegOps ->
                [cpu |-> [c1 EXCEPT ![LdRegOps[opcode][1]] = c1[LdRegOps[opcode][2]]],
                 mem |-> m]
          [] opcode \in LogicOps -> [cpu |-> ExecLogic(opcode, c1, m, d8), mem |-> m]
          [] opcode \in MoveOps -> ExecMove(opcode, c1, m, d16)
          [] opcode = \hCB -> [cpu |-> ExecCb(c1, m), mem |-> m]
          [] opcode = \h21 ->
                [cpu |-> [Advance(c1, 2) EXCEPT !.h = d16 \div 256, !.l = d16 % 256],
                 mem |-> m]
          [] opcode = \h36 ->
                [cpu |-> Advance(c1, 1), mem |-> memory_write(m, get_hl(c1), d8)]
          [] opcode = \h3E ->
                [cpu |-> [Advance(c1, 1) EXCEPT !.a = d8], mem |-> m]
          [] opcode = \h77 ->
                [cpu |-> c1, mem |-> memory_write(m, get_hl(c1), c1.a)]
          [] opcode = \h7E ->
                [cpu |-> [c1 EXCEPT !.a = memory_read(m, get_hl(c1))], mem |-> m]
          [] opcode = \hC3 ->
                [cpu |-> [c1 EXCEPT !.pc = d16], mem |-> m]
          [] opcode = \hE0 ->
                [cpu |-> Advance(c1, 1), mem |-> memory_write(m, \hFF00 + d8, c1.a)]
          [] opcode = \hEA ->
                [cpu |-> Advance(c1, 2), mem |-> memory_write(m, d16, c1.a)]
          [] opcode = \hF0 ->
                [cpu |-> [Advance(c1, 1) EXCEPT !.a = memory_read(m, \hFF00 + d8)],
                 mem |-> m]
          [] opcode = \hF3 ->
                [cpu |-> [c1 EXCEPT !.interrupts_enabled = FALSE], mem |-> m]
          [] opcode = \hFA ->
                [cpu |-> [Advance(c1, 2) EXCEPT !.a = memory_read(m, d16)], mem |-> m]
          [] opcode = \hFB ->
                [cpu |-> [c1 EXCEPT !.interrupts_enabled = TRUE], mem |-> m]
          [] OTHER -> [cpu |-> c1, mem |-> m]

\* execute_cpu_cycle with an interrupt dispatch: a requested and enabled
\* interrupt is serviced at 0x0040 when interrupts_enabled is set.
execute_cpu_cycle_dispatching(c, m) ==
    IF c.interrupts_enabled /\ And8(memory_read(m, \hFF0F), memory_read(m, \hFFFF)) # 0
    THEN LET r == Push(c, m, c.pc \div 256, c.pc % 256) IN
         [cpu |-> [r.cpu EXCEPT !.pc = \h0040, !.interrupts_enabled = FALSE],
          mem |-> r.mem]
    ELSE cpu_execute_instruction(c, m)

\* execute_cpu_cycle: nothing while halted, else one instruction.
execute_cpu_cycle(c, m) ==
    IF c.halted
    THEN [cpu |-> c, mem |-> m]
    ELSE cpu_execute_instruction(c, m)

\* The next opcode is one whose case is translated, or one the switch has no case for.
CanExecute(c, m) ==
    c.halted \/ FetchByte(c, m) \in Decoded \/ FetchByte(c, m) \notin Implemented

(***************************************************************************)
(* Cartridge images.  Each is a 32 KiB file, zero except for the program   *)
(* at the entry point 0x0100.                                              *)
(***************************************************************************)
Image(code) ==
    [present |-> TRUE, size |-> \h8000,
     data |-> [address \in {a \in \h0100..(\h0100 + Len(code) - 1) : code[a - \h00FF] # 0}
                 |-> code[address - \h00FF]]]

\* 0100: JR -2
IdleRom == Image(<<\h18, \hFE>>)

\* 0100: LD A,03 ; LDH (41),A ; LD A,11 ; LDH (40),A ; JR -2
\* (writes STAT, then switches the LCD off)
StatRom == Image(<<\h3E, \h03, \hE0, \h41, \h3E, \h11, \hE0, \h40, \h18, \hFE>>)

\* 0100: EI ; LD A,1F ; LDH (0F),A ; LDH (FF),A ; DI ; 0108: (D3) ;
\* 0109: JR NZ,+10 ; 010B: CB 00 ; 010D: (76) ; 010E: JR -16
\* (requests and enables all five interrupts, with the master enable on and off;
\* then an opcode without a case, a branch not taken since Z is set from power-on,
\* a CB second byte without a case, 0x76, and a branch taken)
IntRom ==
    Image(<<\hFB, \h3E, \h1F, \hE0, \h0F, \hE0, \hFF, \hF3,
            \hD3, \h20, \h10, \hCB, \h00, \h76, \h18, \hF0>>)

RomImages == {IdleRom, StatRom, IntRom}

(***************************************************************************)
(* Power-on: init_memory, init_cpu, init_ppu, init_timer, init_input.      *)
(***************************************************************************)
PowerOnMemory ==
    input_init_registers(timer_init_registers(ppu_init_registers(memory_init)))

NoOp == [op |-> "init", address |-> 0, value |-> 0, cycles |-> 0, printed |-> <<>>]

PowerOn ==
    /\ memory = PowerOnMemory
    /\ cpu = cpu_init_state
    /\ ppu = ppu_init_state
    /\ framebuffer = framebuffer_init
    /\ timer_state = timer_init_state
    /\ input_state = input_init_state
    /\ instruction_count = 0
    /\ calls = 0
    /\ last = NoOp
    /\ lineModes = <<ppu_init_state.mode>>

\* The modes seen on the current line, after the PPU went from p to q.
LineModesAfter(p, q) ==
    IF q.line # p.line THEN <<q.mode>>
    ELSE IF q.mode # p.mode THEN Append(lineModes, q.mode)
    ELSE lineModes

(***************************************************************************)
(* Spec: main().  The cartridge is loaded, then the emulation loop runs.   *)
(***************************************************************************)
Init ==
    /\ PowerOn
    /\ cart \in RomImages
    /\ pc = "cpu"

\* The inner loop without its test of ppu_is_frame_ready().
CpuCycleIgnoringFrameReady ==
    /\ pc = "cpu"
    /\ instruction_count < MaxSteps
    /\ CanExecute(cpu, memory)
    /\ \E r \in {execute_cpu_cycle(cpu, memory)} :
          /\ cpu' = r.cpu
          /\ memory' = r.mem
    /\ instruction_count' = instruction_count + 1
    /\ pc' = "ppu"
    /\ last' = [NoOp EXCEPT !.op = "execute_cpu_cycle",
                             !.printed = cpu_diagnostic(cpu, memory)]
    /\ UNCHANGED <<cart, calls, ppu, framebuffer, timer_state, input_state, lineModes>>

\* while (!ppu_is_frame_ready() && running) { execute_cpu_cycle(); instruction_count++;
CpuCycle ==
    /\ pc = "cpu"
    /\ ~ppu_is_frame_ready(ppu)
    /\ instruction_count < MaxSteps
    /\ CanExecute(cpu, memory)
    /\ \E r \in {execute_cpu_cycle(cpu, memory)} :
          /\ cpu' = r.cpu
          /\ memory' = r.mem
    /\ instruction_count' = instruction_count + 1
    /\ pc' = "ppu"
    /\ last' = [NoOp EXCEPT !.op = "execute_cpu_cycle",
                             !.printed = cpu_diagnostic(cpu, memory)]
    /\ UNCHANGED <<cart, calls, ppu, framebuffer, timer_state, input_state, lineModes>>

\* update_ppu();
UpdatePpu ==
    /\ pc = "ppu"
    /\ \E r \in {ppu_update(ppu, memory, framebuffer, 4)} :
          /\ ppu' = r.ppu
          /\ memory' = r.mem
          /\ framebuffer' = r.fb
          /\ lineModes' = LineModesAfter(ppu, r.ppu)
    /\ pc' = "input"
    /\ last' = [NoOp EXCEPT !.op = "ppu_update", !.cycles = 4]
    /\ UNCHANGED <<cart, calls, cpu, timer_state, input_state, instruction_count>>

\* handle_input();
HandleInput ==
    /\ pc = "input"
    /\ \E ch \in Keys :
          \E r \in {input_update(input_state, memory, ch)} :
             /\ input_state' = r.input
             /\ memory' = r.mem
    /\ pc' = "timer"
    /\ last' = [NoOp EXCEPT !.op = "input_update"]
    /\ UNCHANGED <<cart, calls, cpu, ppu, framebuffer, timer_state, instruction_count, lineModes>>

\* update_timer() charging 8 cycles.
UpdateTimerEightCycles ==
    /\ pc = "timer"
    /\ \E r \in {timer_update(timer_state, memory, 8)} :
          /\ timer_state' = r.timer
          /\ memory' = r.mem
    /\ pc' = "cpu"
    /\ last' = [NoOp EXCEPT !.op = "timer_update", !.cycles = 8]
    /\ UNCHANGED <<cart, calls, cpu, ppu, framebuffer, input_state, instruction_count, lineModes>>

\* update_timer(); }
UpdateTimer ==
    /\ pc = "timer"
    /\ \E r \in {timer_update(timer_state, memory, 4)} :
          /\ timer_state' = r.timer
          /\ memory' = r.mem
    /\ pc' = "cpu"
    /\ last' = [NoOp EXCEPT !.op = "timer_update", !.cycles = 4]
    /\ UNCHANGED <<cart, calls, cpu, ppu, framebuffer, input_state, instruction_count, lineModes>>

\* if (ppu_is_frame_ready()) { ... ppu_render_frame(); ... }
RenderFrame ==
    /\ pc = "cpu"
    /\ ppu_is_frame_ready(ppu)
    /\ ppu' = ppu_render_frame(ppu)
    /\ last' = [NoOp EXCEPT !.op = "ppu_render_frame"]
    /\ UNCHANGED <<cart, calls, memory, cpu, framebuffer, timer_state, input_state,
                   pc, instruction_count, lineModes>>

Next ==
    \/ CpuCycle
    \/ UpdatePpu
    \/ HandleInput
    \/ UpdateTimer
    \/ RenderFrame

Spec == Init /\ [][Next]_vars

\* Driver steps of 4 cycles in a scanline of 456 cycles, and in a frame of 154.
StepsPerLine == 456 \div 4
StepsPerFrame == 154 * StepsPerLine

(***************************************************************************)
(* SpecLive: the driver loop under the fairness of a sequential program,   *)
(* from the start of line 140 of the second frame (driver step 33453, a    *)
(* state Spec reaches on each ROM that leaves the LCD on) to one scanline  *)
(* past the end of that frame.                                             *)
(***************************************************************************)
LiveStart == StepsPerFrame + 51 + 139 * StepsPerLine
LiveEnd == LiveStart + 5 * StepsPerLine

\* The driver's state after LiveStart iterations on the ROM rom, no key pressed,
\* the CPU in state c and the bytes `extra` stored by the program.
LateInSecondFrame(rom, c, extra) ==
    /\ cart = rom
    /\ memory = [a \in DOMAIN extra \cup {JOYPAD_REG, DIV, LCDC, STAT, LY, BGP} |->
                   CASE a = JOYPAD_REG -> \hFF
                     [] a = DIV -> 10
                     [] a = LCDC -> \h91
                     [] a = STAT -> 2
                     [] a = LY -> 140
                     [] a = BGP -> \hFC
                     [] OTHER -> extra[a]]
    /\ cpu = c
    /\ ppu = [cycles |-> 0, mode |-> 2, line |-> 140,
              frame_ready |-> FALSE, frame_count |-> 1]
    /\ framebuffer = framebuffer_init
    /\ timer_state = [divider_cycles |-> 180, timer_cycles |-> 0]
    /\ input_state = input_init_state
    /\ instruction_count = LiveStart
    /\ calls = 0
    /\ last = [NoOp EXCEPT !.op = "timer_update", !.cycles = 4]
    /\ lineModes = <<2>>
    /\ pc = "cpu"

LateIdle == LateInSecondFrame(IdleRom, cpu_init_state, [a \in {} |-> 0])

LateInt ==
    LateInSecondFrame(IntRom,
                      [cpu_init_state EXCEPT !.pc = \h0105, !.a = \h1F,
                                             !.interrupts_enabled = TRUE],
                      [a \in {\hFF0F, \hFFFF} |-> \h1F])

\* Violated under Spec: the driver reaches both states.
LateIdleNotReached == ~LateIdle
LateIntNotReached == ~LateInt

InitLive ==
    \/ LateIdle
    \/ LateInt

\* The loop of main, left alone after LiveEnd iterations.
NextLive ==
    /\ pc = "cpu" /\ ~ppu_is_frame_ready(ppu) => instruction_count < LiveEnd
    /\ Next

\* The driver is a sequential program: while a step of the loop is possible, one
\* is taken.
SpecLive == InitLive /\ [][NextLive]_vars /\ WF_vars(NextLive)

(***************************************************************************)
(* SpecCore: the component interfaces called directly after power-on, in   *)
(* any order, with or without a cartridge.                                 *)
(***************************************************************************)
\* 0100: LDH (04),A ; LD (2000),A ; JR -2        (a 512-byte image)
SmallRom ==
    [Image(<<\hE0, \h04, \hEA, \h00, \h20, \h18, \hFE>>) EXCEPT !.size = \h0200]

CoreCarts == {NULL, SmallRom}

\* The addresses written: the last byte of ROM and the first past it, working RAM,
\* echo RAM and its edges, the first byte past echo RAM, and two registers.
Addresses == {\h7FFF, \h8000, \hC010, \hE000, \hE010, \hFDFF, \hFE00, DIV, LCDC}

\* The bytes written: 0x11 clears LCDC bit 7, 0xAB sets it.
Values == {\h11, \hAB}

\* The cycle counts passed to ppu_update and timer_update.
Cycles == {4, 512}

\* The ROM addresses read: inside SmallRom, its last byte, the first byte past it,
\* the end of the ROM window.
RomProbes == {\h0100, \h01FF, \h0200, \h7FFF}

\* The driver's state after 16352 iterations on IdleRom with no key pressed: the
\* PPU is 4 cycles from the end of the last visible line of the first frame.
LastLine ==
    /\ cart = IdleRom
    /\ memory = [a \in {JOYPAD_REG, DIV, LCDC, LY, BGP} |->
                   CASE a = JOYPAD_REG -> \hFF
                     [] a = DIV -> \hFF
                     [] a = LCDC -> \h91
                     [] a = LY -> 143
                     [] a = BGP -> \hFC]
    /\ cpu = cpu_init_state
    /\ ppu = [cycles |-> 200, mode |-> 0, line |-> 143,
              frame_ready |-> FALSE, frame_count |-> 0]
    /\ framebuffer = framebuffer_init
    /\ timer_state = [divider_cycles |-> 128, timer_cycles |-> 0]
    /\ input_state = input_init_state
    /\ instruction_count = 16352
    /\ calls = 0
    /\ last = [NoOp EXCEPT !.op = "timer_update", !.cycles = 4]
    /\ lineModes = <<2, 3, 0>>
    /\ pc = "cpu"

\* Violated under Spec: the driver reaches LastLine.
LastLineNotReached == ~LastLine

InitCore ==
    \/ /\ PowerOn
       /\ cart \in CoreCarts
       /\ pc = "cpu"
    \/ LastLine

\* memory_read(address), its result recorded.
CoreRead ==
    /\ calls < MaxOps
    /\ \E address \in RomProbes :
          last' = [NoOp EXCEPT !.op = "memory_read", !.address = address,
                               !.value = memory_read(memory, address)]
    /\ calls' = calls + 1
    /\ UNCHANGED <<cart, memory, cpu, ppu, framebuffer, timer_state, input_state,
                   pc, instruction_count, lineModes>>

CoreWrite ==
    /\ calls < MaxOps
    /\ \E address \in Addresses, value \in Values :
          /\ memory' = memory_write(memory, address, value)
          /\ last' = [NoOp EXCEPT !.op = "memory_write", !.address = address, !.value = value]
    /\ calls' = calls + 1
    /\ UNCHANGED <<cart, cpu, ppu, framebuffer, timer_state, input_state,
                   pc, instruction_count, lineModes>>

CorePpu ==
    /\ calls < MaxOps
    /\ \E cycles \in Cycles :
          \E r \in {ppu_update(ppu, memory, framebuffer, cycles)} :
             /\ ppu' = r.ppu
             /\ memory' = r.mem
             /\ framebuffer' = r.fb
             /\ lineModes' = LineModesAfter(ppu, r.ppu)
             /\ last' = [NoOp EXCEPT !.op = "ppu_update", !.cycles = cycles]
    /\ calls' = calls + 1
    /\ UNCHANGED <<cart, cpu, timer_state, input_state, pc, instruction_count>>

CoreTimer ==
    /\ calls < MaxOps
    /\ \E cycles \in Cycles :
          \E r \in {timer_update(timer_state, memory, cycles)} :
             /\ timer_state' = r.timer
             /\ memory' = r.mem
             /\ last' = [NoOp EXCEPT !.op = "timer_update", !.cycles = cycles]
    /\ calls' = calls + 1
    /\ UNCHANGED <<cart, cpu, ppu, framebuffer, input_state, pc, instruction_count, lineModes>>

CoreCpu ==
    /\ calls < MaxOps
    /\ CanExecute(cpu, memory)
    /\ \E r \in {execute_cpu_cycle(cpu, memory)} :
          /\ cpu' = r.cpu
          /\ memory' = r.mem
    /\ last' = [NoOp EXCEPT !.op = "execute_cpu_cycle",
                             !.printed = cpu_diagnostic(cpu, memory)]
    /\ calls' = calls + 1
    /\ UNCHANGED <<cart, ppu, framebuffer, timer_state, input_state,
                   pc, instruction_count, lineModes>>

CoreInput ==
    /\ calls < MaxOps
    /\ \E ch \in Keys :
          \E r \in {input_update(input_state, memory, ch)} :
             /\ input_state' = r.input
             /\ memory' = r.mem
    /\ last' = [NoOp EXCEPT !.op = "input_update"]
    /\ calls' = calls + 1
    /\ UNCHANGED <<cart, cpu, ppu, framebuffer, timer_state, pc, instruction_count, lineModes>>

CoreRender ==
    /\ calls < MaxOps
    /\ ppu' = ppu_render_frame(ppu)
    /\ last' = [NoOp EXCEPT !.op = "ppu_render_frame"]
    /\ calls' = calls + 1
    /\ UNCHANGED <<cart, memory, cpu, framebuffer, timer_state, input_state,
                   pc, instruction_count, lineModes>>

NextCore ==
    \/ CoreRead
    \/ CoreWrite
    \/ CorePpu
    \/ CoreTimer
    \/ CoreCpu
    \/ CoreInput
    \/ CoreRender

SpecCore == InitCore /\ [][NextCore]_vars

(***************************************************************************)
(* The bus: echo RAM, ROM and plain bytes.                                 *)
(***************************************************************************)
\* C5: for every address a in 0xE000..0xFDFF and every byte v, after write(a, v)
\* both read(a) and read(a - 0x2000) return v.
EchoWriteReachesWram ==
    (last.op = "memory_write" /\ last.address >= \hE000 /\ last.address <= \hFDFF)
        => /\ memory_read(memory, last.address) = last.value
           /\ memory_read(memory, last.address - \h2000) = last.value

\* The write of 0xAB to 0xE010 has been made and 0xC010 holds 0xAB.
EchoWriteMade ==
    /\ last.op = "memory_write"
    /\ last.address = \hE010
    /\ last.value = \hAB
    /\ memory_read(memory, \hC010) = \hAB

\* C6: for every working-RAM address a in 0xC000..0xDDFF and every byte v, after
\* write(a, v) a read of the echo address a + 0x2000 returns v.
WramWriteReachesEcho ==
    (last.op = "memory_write" /\ last.address >= \hC000 /\ last.address <= \hDDFF)
        => memory_read(memory, last.address + \h2000) = last.value

\* C8: a bus read of an address below 0x8000 returns 0xFF when no cartridge is
\* loaded or the address is at or past the cartridge's size, and the cartridge's
\* byte at that address otherwise.
RomReadResult ==
    (last.op = "memory_read" /\ last.address < \h8000)
        => /\ ~cart.present => last.value = \hFF
           /\ (cart.present /\ last.address >= cart.size) => last.value = \hFF
           /\ (cart.present /\ last.address < cart.size)
                 => last.value = CartByte(cart, last.address)

\* The first address past the 0x200 bytes of SmallRom has been read as 0xFF.
RomReadPastEnd ==
    /\ cart = SmallRom
    /\ last.op = "memory_read"
    /\ last.address = \h0200
    /\ last.value = \hFF

(***************************************************************************)
(* The bus: ROM and plain bytes.                                           *)
(***************************************************************************)
\* C7: a write to an address below 0x8000 changes nothing, neither the cartridge
\* nor the bus array; across every call, a CPU step included, every read below
\* 0x8000 returns what it returned before and the array holds nothing but its
\* initial zero below 0x8000.
RomIsImmutable ==
    [][/\ cart' = cart
       /\ \A a \in RomProbes : (memory_read(memory, a))' = memory_read(memory, a)
       /\ \A a \in DOMAIN memory' : a >= \h8000
       /\ (last'.op = "memory_write" /\ last'.address < \h8000) => memory' = memory]_vars

\* The CPU has executed LD (0x2000),A of SmallRom, a write into ROM.
CpuWroteRom ==
    /\ cart = SmallRom
    /\ cpu.pc = \h0105
    /\ last.op = "execute_cpu_cycle"

\* C9: for every address a at or above 0x8000 outside echo RAM and every byte v,
\* write(a, v) changes only the byte at a and a following read(a) returns v; a CPU
\* write of A to the divider register 0xFF04 leaves A there.
PlainWriteChangesOneByte ==
    [][/\ (last'.op = "memory_write" /\ last'.address >= \h8000
              /\ ~(last'.address >= \hE000 /\ last'.address <= \hFDFF))
            => /\ memory_read(memory', last'.address) = last'.value
               /\ \A a \in (DOMAIN memory \cup DOMAIN memory') \ {last'.address} :
                     Peek(memory', a) = Peek(memory, a)
       /\ (last'.op = "execute_cpu_cycle" /\ ~cpu.halted
              /\ memory_read(memory, cpu.pc) = \hE0
              /\ memory_read(memory, U16(cpu.pc + 1)) = \h04)
            => Peek(memory', DIV) = cpu.a]_vars

\* The CPU has executed LDH (0x04),A of SmallRom and the divider holds A, 0x01.
CpuWroteDiv ==
    /\ cart = SmallRom
    /\ cpu.pc = \h0102
    /\ last.op = "execute_cpu_cycle"
    /\ memory_read(memory, DIV) = \h01

(***************************************************************************)
(* The timer's divider.                                                    *)
(***************************************************************************)
\* C10: for every cycle count passed to one timer_update, the divider register at
\* 0xFF04 is incremented (mod 256) once for every 256 cycles accumulated, and the
\* divider accumulator is below 256 when timer_update returns.
DividerCountsEvery256 ==
    [][last'.op = "timer_update"
         => /\ timer_state'.divider_cycles < 256
            /\ memory_read(memory', DIV)
                 = U8(memory_read(memory, DIV)
                        + ((timer_state.divider_cycles + last'.cycles) \div 256))]_vars

(***************************************************************************)
(* The PPU with the LCD off, and the frame-ready flag.                     *)
(***************************************************************************)
\* C2: when bit 7 of the control register at 0xFF40 is clear, ppu_update changes
\* nothing: the PPU's cycle counter, mode, line and frame-ready flag, the
\* framebuffer and the memory keep their values, for every cycle count.
LcdOffAdvanceIsNoOp ==
    [][(last'.op = "ppu_update" /\ Bit(memory_read(memory, LCDC), 7) = 0)
         => /\ ppu' = ppu
            /\ framebuffer' = framebuffer
            /\ memory' = memory]_vars

\* C4: the frame-ready flag is set only by the ppu_update in which the line
\* becomes 144, no ppu_update, CPU step or timer_update clears it, and it becomes
\* false again only in ppu_render_frame.
FrameReadyIsSingleSlot ==
    [][/\ (~ppu.frame_ready /\ ppu'.frame_ready)
            => (last'.op = "ppu_update" /\ ppu.line = 143 /\ ppu'.line = 144)
       /\ (ppu.frame_ready /\ ~ppu'.frame_ready)
            => last'.op = "ppu_render_frame"
       /\ (ppu.frame_ready
              /\ last'.op \in {"ppu_update", "execute_cpu_cycle", "timer_update"})
            => ppu'.frame_ready]_vars

\* The flag was set as the line became 144, survived a call, and
\* ppu_render_frame has just cleared it.
FrameReadyConsumed ==
    /\ ppu.line = 144
    /\ ppu.frame_count = 1
    /\ ~ppu.frame_ready
    /\ last.op = "ppu_render_frame"
    /\ calls = 3

(***************************************************************************)
(* The PPU under the driver.                                               *)
(***************************************************************************)
\* C1: with the LCD on and the PPU advanced 4 cycles per driver step, in every
\* frame, the first included, each of the 144 visible lines goes OAM Scan, Pixel
\* Transfer, H-Blank, lines 144 to 153 stay in V-Blank, and line 0 follows in OAM
\* Scan; frame-ready becomes true exactly at the H-Blank to V-Blank transition in
\* which the line becomes 144.
FrameModeSequence ==
    [][(last'.op = "ppu_update" /\ Bit(memory_read(memory, LCDC), 7) = 1)
         => /\ (ppu'.line # ppu.line)
                 => /\ ppu'.line = (ppu.line + 1) % 154
                    /\ lineModes = IF ppu.line < 144 THEN <<2, 3, 0>> ELSE <<1>>
                    /\ ppu'.mode = IF ppu'.line >= 144 THEN 1 ELSE 2
            /\ (~ppu.frame_ready /\ ppu'.frame_ready)
                 <=> (ppu.line = 143 /\ ppu'.line = 144)]_vars

\* C3: in every state the driver reaches, the low 2 bits of the status register
\* at 0xFF41 equal the PPU's mode, after a CPU write to 0xFF41 and with the LCD
\* off as well.
StatLowBitsAreMode == memory_read(memory, STAT) % 4 = ppu.mode

(***************************************************************************)
(* SpecTimer: timer_update called with the timer registers as a program    *)
(* may have set them.                                                      *)
(***************************************************************************)
\* TAC: every combination of the enable bit and the two clock-select bits.
TacValues == 0 .. 7

\* TIMA: zero, one step from overflow, about to overflow.
TimaValues == {\h00, \hFE, \hFF}

\* TMA: the reload value.
TmaValues == {\h00, \hAB}

\* The cycle counts passed to timer_update; 4 is the driver's.
TimerCycles == {4, 12, 64, 1024}

InitTimer ==
    /\ PowerOn
    /\ cart = NULL
    /\ pc = "cpu"

\* A program's writes to TAC, TIMA and TMA.
TimerSetup ==
    /\ last.op = "init"
    /\ \E tac \in TacValues, tima \in TimaValues, tma \in TmaValues :
          memory' = memory_write(memory_write(memory_write(memory, TAC, tac),
                                              TIMA, tima), TMA, tma)
    /\ last' = [NoOp EXCEPT !.op = "memory_write", !.address = TMA]
    /\ UNCHANGED <<cart, cpu, ppu, framebuffer, timer_state, input_state,
                   pc, instruction_count, calls, lineModes>>

TimerAdvance ==
    /\ last.op # "init"
    /\ calls < MaxOps
    /\ \E cycles \in TimerCycles :
          \E r \in {timer_update(timer_state, memory, cycles)} :
             /\ timer_state' = r.timer
             /\ memory' = r.mem
             /\ last' = [NoOp EXCEPT !.op = "timer_update", !.cycles = cycles]
    /\ calls' = calls + 1
    /\ UNCHANGED <<cart, cpu, ppu, framebuffer, input_state, pc, instruction_count, lineModes>>

NextTimer ==
    \/ TimerSetup
    \/ TimerAdvance

SpecTimer == InitTimer /\ [][NextTimer]_vars

(***************************************************************************)
(* SpecTimerDriver: the driver's update_timer() calls, with the program's  *)
(* stores to TAC coming between them.                                      *)
(***************************************************************************)
\* The values a program stores to TAC: off, on at 4096 Hz (threshold 1024), on at
\* 262144 Hz (threshold 16), on at 16384 Hz (threshold 256).
TacStores == {\h00, \h04, \h05, \h07}

\* A CPU store to TAC between two iterations' timer updates.
TacStore ==
    /\ calls < 4 * MaxOps
    /\ \E tac \in TacStores :
          /\ memory_read(memory, TAC) # tac
          /\ memory' = memory_write(memory, TAC, tac)
          /\ last' = [NoOp EXCEPT !.op = "memory_write", !.address = TAC, !.value = tac]
    /\ calls' = calls + 1
    /\ UNCHANGED <<cart, cpu, ppu, framebuffer, timer_state, input_state,
                   pc, instruction_count, lineModes>>

\* update_timer(): timer_update(4).
DriverTimerStep ==
    /\ calls < 4 * MaxOps
    /\ \E r \in {timer_update(timer_state, memory, 4)} :
          /\ timer_state' = r.timer
          /\ memory' = r.mem
    /\ last' = [NoOp EXCEPT !.op = "timer_update", !.cycles = 4]
    /\ calls' = calls + 1
    /\ UNCHANGED <<cart, cpu, ppu, framebuffer, input_state, pc, instruction_count, lineModes>>

NextTimerDriver ==
    \/ TacStore
    \/ DriverTimerStep

SpecTimerDriver == InitTimer /\ [][NextTimerDriver]_vars

\* C11: when bit 2 of the timer control register 0xFF07 is set, the timer
\* accumulator grows by the cycles of the timer_update and, on reaching the
\* threshold chosen by the low 2 bits (0: 1024, 1: 16, 2: 64, 3: 256), the
\* threshold is subtracted and the counter at 0xFF05 is incremented, a counter of
\* 0xFF being replaced by the modulo register 0xFF06; when bit 2 is clear the
\* counter and the accumulator are unchanged.
TimaCountsAtThreshold ==
    [][last'.op = "timer_update"
         => LET tac == memory_read(memory, TAC)
                tima == memory_read(memory, TIMA)
                sum == timer_state.timer_cycles + last'.cycles
                threshold == <<1024, 16, 64, 256>>[(tac % 4) + 1]
            IN  IF (tac \div 4) % 2 = 1
                THEN IF sum >= threshold
                     THEN /\ timer_state'.timer_cycles = sum - threshold
                          /\ memory_read(memory', TIMA)
                               = IF tima = \hFF THEN memory_read(memory, TMA) ELSE tima + 1
                     ELSE /\ timer_state'.timer_cycles = sum
                          /\ memory_read(memory', TIMA) = tima
                ELSE /\ timer_state'.timer_cycles = timer_state.timer_cycles
                     /\ memory_read(memory', TIMA) = tima]_vars

\* With TAC = 5 (enabled, threshold 16) a counter of 0xFF has just been replaced
\* by TMA = 0xAB as the accumulator reached 16.
TimaReloaded ==
    /\ last.op = "timer_update"
    /\ memory_read(memory, TAC) = 5
    /\ memory_read(memory, TIMA) = \hAB
    /\ memory_read(memory, TMA) = \hAB
    /\ timer_state.timer_cycles = 0
    /\ calls = 2

(***************************************************************************)
(* SpecCpu: the CPU executing short programs from the entry point, with    *)
(* the registers and flags earlier instructions may have left.             *)
(***************************************************************************)
Bytes == 0 .. 255

\* A loaded program, the CPU c and the memory m, everything else as at power-on.
CpuStart(code, c, m) ==
    /\ cart = Image(code)
    /\ cpu = c
    /\ memory = m
    /\ ppu = ppu_init_state
    /\ framebuffer = framebuffer_init
    /\ timer_state = timer_init_state
    /\ input_state = input_init_state
    /\ instruction_count = 0
    /\ calls = 0
    /\ last = NoOp
    /\ lineModes = <<ppu_init_state.mode>>
    /\ pc = "cpu"

\* LD B,5; INC B; DEC B; DEC B.
IncDecRom == <<\h06, \h05, \h04, \h05, \h05>>

\* One INC or DEC with its operand x in every register (HL pointing at x for
\* DEC (HL)) and the carry flag clear or set.
InitIncDec ==
    \/ \E opcode \in DOMAIN IncOps \cup DOMAIN DecOps \cup {\h35},
          x \in Bytes, f \in {\h00, \hF0} :
          CpuStart(<<opcode>>,
                   [cpu_init_state EXCEPT
                      !.a = x, !.b = x, !.c = x, !.d = x, !.e = x, !.f = f,
                      !.h = IF opcode \in {\h24, \h25, \h2C} THEN x ELSE \hC0,
                      !.l = IF opcode \in {\h24, \h25, \h2C} THEN x ELSE \h10],
                   Poke(PowerOnMemory, \hC010, x))
    \/ CpuStart(IncDecRom, cpu_init_state, PowerOnMemory)

\* The operands of the 8-bit arithmetic: nibble and byte boundaries.
Operands == {\h00, \h01, \h0F, \h10, \h7F, \h80, \hFF}

\* One arithmetic instruction for every accumulator, an operand (immediate, or at
\* HL for CP (HL)), and the flags 0x10 (carry alone) or 0xE0 (all but carry).
InitAlu ==
    \E opcode \in AluOps, x \in Bytes, v \in Operands, f \in {\h10, \hE0} :
       CpuStart(IF opcode \in {\h87, \hBE} THEN <<opcode>> ELSE <<opcode, v>>,
                [cpu_init_state EXCEPT !.a = x, !.f = f, !.h = \hC0, !.l = \h10],
                Poke(PowerOnMemory, \hC010, IF opcode = \hBE THEN v ELSE 0))

\* 16-bit register values: the edges of bits 7, 11 and 15.
Words == {\h0000, \h0001, \h00FF, \h0800, \h0FFF, \h1000, \h1234, \h8000, \hF001, \hFFFF}

\* One ADD HL,rr with HL = x, BC = DE = v and the flags 0x40 or 0xF0.
InitAddHL ==
    \E opcode \in AddHLOps, x \in Words, v \in Words, f \in {\h40, \hF0} :
       CpuStart(<<opcode>>,
                [cpu_init_state EXCEPT !.h = x \div 256, !.l = x % 256,
                                       !.b = v \div 256, !.c = v % 256,
                                       !.d = v \div 256, !.e = v % 256, !.f = f],
                PowerOnMemory)

\* Every combination of the Z, N, H and C flags.
FlagBytes == {16 * n : n \in 0 .. 15}

\* DAA for every accumulator and every combination of the flags.
InitDaa ==
    \E x \in Bytes, f \in FlagBytes :
       CpuStart(<<\h27>>, [cpu_init_state EXCEPT !.a = x, !.f = f], PowerOnMemory)

\* RLCA; RRCA.
RotateBackRom == <<\h07, \h0F>>

\* One rotate, or RLCA then RRCA, for every accumulator (B holds a copy of it) and
\* the flags 0x00, 0x10, 0xE0 and 0xF0.
InitRotate ==
    \E code \in {<<opcode>> : opcode \in RotateOps} \cup {RotateBackRom},
       x \in Bytes, f \in {\h00, \h10, \hE0, \hF0} :
       CpuStart(code, [cpu_init_state EXCEPT !.a = x, !.b = x, !.f = f], PowerOnMemory)

\* Stack pointers: the power-on value, working RAM, echo RAM, the wrap at 0, the
\* first two addresses whose pushes stay in RAM or reach ROM, and ROM.
StackPointers == {\hFFFE, \hD000, \hE002, \h0000, \h8002, \h8001, \h4000}

\* PUSH BC; POP DE.
PushPopRom == <<\hC5, \hD1>>

\* PUSH BC; POP DE for BC = v and sp = s (HL holds a copy of s).
InitPushPop ==
    \E v \in Words, s \in StackPointers :
       CpuStart(PushPopRom,
                [cpu_init_state EXCEPT !.b = v \div 256, !.c = v % 256, !.sp = s,
                                       !.h = s \div 256, !.l = s % 256],
                PowerOnMemory)

\* 0100: CALL 0106 ; 0106: RET.
CallRetRom == <<\hCD, \h06, \h01, \h00, \h00, \h00, \hC9>>

\* 0100: CALL 0106 ; 0106: PUSH BC ; POP DE ; RET (a callee that uses the stack
\* below the return address and leaves sp balanced).
CallBodyRom == <<\hCD, \h06, \h01, \h00, \h00, \h00, \hC5, \hD1, \hC9>>

\* A CALL and its RET for sp = s (HL holds a copy of s).
InitCallRet ==
    \E code \in {CallRetRom, CallBodyRom}, s \in StackPointers :
       CpuStart(code,
                [cpu_init_state EXCEPT !.b = \h12, !.c = \h34, !.sp = s,
                                       !.h = s \div 256, !.l = s % 256],
                PowerOnMemory)

\* Relative offsets: the edges of the signed byte.
Offsets == {\h00, \h01, \h7F, \h80, \hFE, \hFF}

\* The four combinations of Z and C.
JumpFlags == {\h00, \h10, \h80, \h90}

\* One jump, call or return with the flags f: JR with the offset s, JP and CALL
\* to 0150, RET from a stack at 0xD000 that holds the return address 0150.  The
\* opcodes of JR NC (0x30), JR C (0x38) and CALL NZ (0xC4), which the switch has
\* no case for, are among the programs.
InitJump ==
    \E opcode \in {\h18, \h30, \h38, \hC4} \cup JrOps \cup JpOps \cup CallOps \cup RetOps,
       s \in Offsets, f \in JumpFlags :
       CpuStart(IF opcode \in {\h18, \h30, \h38} \cup JrOps THEN <<opcode, s>>
                ELSE IF opcode \in RetOps THEN <<opcode>>
                ELSE <<opcode, \h50, \h01>>,
                [cpu_init_state EXCEPT !.f = f, !.sp = \hD000],
                Poke(Poke(PowerOnMemory, \hD000, \h50), \hD001, \h01))

\* 0100: JP FFFE, with a relative jump in high RAM at FFFE whose target wraps
\* around the end of the address space.
InitJumpWrap ==
    \E opcode \in {\h18} \cup JrOps, s \in Offsets, f \in JumpFlags :
       CpuStart(<<\hC3, \hFE, \hFF>>,
                [cpu_init_state EXCEPT !.f = f],
                Poke(Poke(PowerOnMemory, \hFFFE, opcode), \hFFFF, s))

\* 0100: CALL Z,0150 ; 0103: JR +7F.
JumpSequenceRom == <<\hCC, \h50, \h01, \h18, \h7F>>

InitJumpSequence ==
    \E f \in JumpFlags :
       CpuStart(JumpSequenceRom, [cpu_init_state EXCEPT !.f = f, !.sp = \hD000],
                PowerOnMemory)

\* 0100: HALT ; 0101: INC B.
HaltRom == <<\h76, \h04>>

InitHalt == CpuStart(HaltRom, cpu_init_state, PowerOnMemory)

\* Opcodes without a case in the outer switch, and second bytes without a case
\* in the inner one.
UnknownOpcodes == {\h10, \h76, \hD3, \hF1, \hFF}
UnknownCbOpcodes == {\h00, \h06, \h3E, \h80, \h86, \hC0, \hFF}

\* An opcode without a handler, then INC B, with the flags f and B = v.
InitUnknown ==
    \E opcode \in UnknownOpcodes \cup {\hCB}, cb_opcode \in UnknownCbOpcodes,
       f \in FlagBytes, v \in Operands :
       CpuStart(IF opcode = \hCB THEN <<opcode, cb_opcode, \h04>> ELSE <<opcode, \h04>>,
                [cpu_init_state EXCEPT !.f = f, !.b = v, !.a = v, !.h = \hC0, !.l = \h10],
                Poke(PowerOnMemory, \hC010, v))

\* One CB-prefixed instruction with any second byte, the operand value v in every
\* register and at (HL) (HL = 0xC010, or H = L = v), the carry clear or set and
\* the other flags set or clear.
InitCb ==
    \E cb_opcode \in Bytes, v \in Operands, f \in {\h10, \hE0}, hl \in BOOLEAN :
       CpuStart(<<\hCB, cb_opcode>>,
                [cpu_init_state EXCEPT !.a = v, !.b = v, !.c = v, !.d = v, !.e = v,
                                       !.h = IF hl THEN \hC0 ELSE v,
                                       !.l = IF hl THEN \h10 ELSE v, !.f = f],
                Poke(PowerOnMemory, \hC010, v))

\* Power-on with any three bytes at the entry point: every opcode, then operand
\* bytes that are executed in turn when the opcode takes none (the third is not
\* NOP, which would end the program after two).
InitAnyRom ==
    \E b1 \in Bytes, b2 \in Operands, b3 \in {\h01, \hC0, \hFF} :
       CpuStart(<<b1, b2, b3>>, cpu_init_state, PowerOnMemory)

\* 0100: LD A,v ; LDH (44),A   (a program storing to the current-line register)
InitLy ==
    \E v \in Operands :
       CpuStart(<<\h3E, v, \hE0, \h44>>, cpu_init_state, PowerOnMemory)

InitCpu ==
    \/ InitLy
    \/ InitAnyRom
    \/ InitCb
    \/ InitUnknown
    \/ InitHalt
    \/ InitJump
    \/ InitJumpWrap
    \/ InitJumpSequence
    \/ InitCallRet
    \/ InitIncDec
    \/ InitAlu
    \/ InitAddHL
    \/ InitDaa
    \/ InitRotate
    \/ InitPushPop

\* execute_cpu_cycle(), at most MaxInstr times; a test program ends at its first NOP.
CpuStep ==
    /\ calls < MaxInstr
    /\ CanExecute(cpu, memory)
    /\ FetchByte(cpu, memory) # \h00
    /\ \E r \in {execute_cpu_cycle(cpu, memory)} :
          /\ cpu' = r.cpu
          /\ memory' = r.mem
    /\ calls' = calls + 1
    /\ last' = [NoOp EXCEPT !.op = "execute_cpu_cycle",
                             !.printed = cpu_diagnostic(cpu, memory)]
    /\ UNCHANGED <<cart, ppu, framebuffer, timer_state, input_state,
                   pc, instruction_count, lineModes>>

NextCpu == CpuStep

SpecCpu == InitCpu /\ [][NextCpu]_vars

(***************************************************************************)
(* SpecPpu: ppu_update called with video RAM and the video registers as a  *)
(* program may have set them, the PPU at the start of the H-Blank of a     *)
(* visible line.                                                           *)
(***************************************************************************)
\* The tile numbers the maps hold.
MapTiles == <<\h01, \h02, \h81, \hFF>>

\* Video RAM: both background maps, and the rows of the tiles in MapTiles in
\* either tile data table.
MapAddresses == BG_MAP_0..(BG_MAP_1 + \h03FF)

TileAddresses ==
    UNION {{TILE_DATA_TABLE_0 + MapTiles[i] * 16 + k : k \in 0..15} : i \in 1..4}
      \cup
    UNION {{TILE_DATA_TABLE_2 + (Int8(MapTiles[i]) + 128) * 16 + k : k \in 0..15} : i \in 1..4}

\* The byte a program stored at video RAM address a.
VideoByte(a) ==
    IF a \in MapAddresses
    THEN MapTiles[((((a - BG_MAP_0) \div 32) + (a % 32) + ((a - BG_MAP_0) \div \h0400)) % 4) + 1]
    ELSE ((a * 7) % 255) + 1

VideoRam(m) ==
    [a \in DOMAIN m \cup MapAddresses \cup TileAddresses |->
        IF a \in MapAddresses \cup TileAddresses THEN VideoByte(a) ELSE m[a]]

\* LCDC: the maps and tables in their four combinations, the background off,
\* the LCD off.
LcdControls == {\h81, \h89, \h91, \h99, \h90, \h11}

\* SCX and SCY, as pairs: no scroll, a scroll inside a tile, a scroll that wraps.
Scrolls == {<<0, 0>>, <<3, 5>>, <<250, 254>>}

\* BGP: the power-on palette, the identity, the identity reversed.
Palettes == {\hFC, \hE4, \h1B}

\* The visible lines the PPU is on.
ScanLines == {0, 7, 142}

InitPpu ==
    /\ \E line \in ScanLines :
          /\ memory = memory_write(PowerOnMemory, LY, line)
          /\ ppu = [ppu_init_state EXCEPT !.line = line]
    /\ cpu = cpu_init_state
    /\ framebuffer = framebuffer_init
    /\ timer_state = timer_init_state
    /\ input_state = input_init_state
    /\ instruction_count = 0
    /\ calls = 0
    /\ last = NoOp
    /\ lineModes = <<ppu_init_state.mode>>
    /\ cart = NULL
    /\ pc = "cpu"

\* A program's writes to video RAM, LCDC, SCX, SCY and BGP.
VideoSetup ==
    /\ last.op = "init"
    /\ \E lcdc \in LcdControls, scroll \in Scrolls, palette \in Palettes :
          memory' = memory_write(memory_write(memory_write(memory_write(
                        VideoRam(memory), LCDC, lcdc), SCX, scroll[1]), SCY, scroll[2]),
                        BGP, palette)
    /\ last' = [NoOp EXCEPT !.op = "memory_write", !.address = BGP]
    /\ UNCHANGED <<cart, cpu, ppu, framebuffer, timer_state, input_state,
                   pc, instruction_count, calls, lineModes>>

\* ppu_update(cycles), with the cycles of a whole mode.
PpuAdvance ==
    /\ last.op # "init"
    /\ calls < MaxOps
    /\ \E cycles \in PpuModePeriods \ {456} :
          \E r \in {ppu_update(ppu, memory, framebuffer, cycles)} :
             /\ ppu' = r.ppu
             /\ memory' = r.mem
             /\ framebuffer' = r.fb
             /\ lineModes' = LineModesAfter(ppu, r.ppu)
             /\ last' = [NoOp EXCEPT !.op = "ppu_update", !.cycles = cycles]
    /\ calls' = calls + 1
    /\ UNCHANGED <<cart, cpu, timer_state, input_state, pc, instruction_count>>

NextPpu ==
    \/ VideoSetup
    \/ PpuAdvance

SpecPpu == InitPpu /\ [][NextPpu]_vars

(***************************************************************************)
(* SpecLoad: main() from the initialisation of the components to the end   *)
(* of the first execute_cpu_cycle, the ROM file and the outcome of the     *)
(* library calls drawn from small sets.                                    *)
(***************************************************************************)
\* The 16 bytes at 0x134 of the files: TETRIS, no title, one letter, 14, 15 and
\* 16 letters, 14 letters with a letter behind the zero, letters behind a zero.
Letters(n) == [k \in 1..16 |-> IF k <= n THEN 64 + k ELSE 0]

HeaderTitles ==
    {<<84, 69, 84, 82, 73, 83, 0, 0, 0, 0, 0, 0, 0, 0, 0, 0>>,
     Letters(0), Letters(1), Letters(14), Letters(15), Letters(16),
     [Letters(14) EXCEPT ![16] = 80],
     <<65, 66, 0, 67, 68, 0, 0, 0, 0, 0, 0, 0, 0, 0, 0, 0>>}

\* The byte at 0x147: ROM only, MBC1, MBC3 with RAM and battery.
HeaderTypes == {\h00, \h01, \h13}

\* File lengths: one byte short of the header, the header exactly, 32 KiB.
FileSizes == {\h014F, \h0150, \h8000}

\* A file of `size` bytes: JR -2 at the entry point, the title and the type.
RomFile(size, title, type) ==
    LET byte(a) == CASE a = \h0100 -> \h18
                     [] a = \h0101 -> \hFE
                     [] a \in HEADER_TITLE..(HEADER_TITLE + 15) -> title[a - HEADER_TITLE + 1]
                     [] a = HEADER_TYPE -> type
                     [] OTHER -> 0
    IN  [size |-> size,
         data |-> [a \in {x \in \h0100..HEADER_TYPE : x < size /\ byte(x) # 0} |-> byte(a)]]

RomFiles ==
    {RomFile(size, title, type) :
        size \in FileSizes, title \in HeaderTitles, type \in HeaderTypes}
      \cup {[size |-> 0, data |-> [a \in {} |-> 0]]}

InitLoad ==
    /\ PowerOn
    /\ cart = NULL
    /\ pc = "load"

\* if (!load_cartridge(argv[1])) { printf("Failed to load ROM..."); return 1; }
LoadCartridge ==
    /\ pc = "load"
    /\ \E file \in RomFiles, fault \in Faults :
          \E r \in {load_cartridge(cart, file, fault)} :
             /\ cart' = r.cart
             /\ pc' = IF r.ok THEN "cpu" ELSE "exit"
             /\ last' = [NoOp EXCEPT !.op = "load_cartridge",
                                     !.value = IF r.ok THEN 1 ELSE 0,
                                     !.printed = r.printed]
    /\ UNCHANGED <<memory, cpu, ppu, framebuffer, timer_state, input_state,
                   instruction_count, calls, lineModes>>

NextLoad ==
    \/ LoadCartridge
    \/ CpuCycle

SpecLoad == InitLoad /\ [][NextLoad]_vars

(***************************************************************************)
(* SpecBcd: ADD A,d8 or SUB d8 followed by DAA on packed BCD operands.     *)
(***************************************************************************)
\* The bytes whose two nibbles are decimal digits.
BcdBytes == {16 * tens + units : tens, units \in 0 .. 9}

\* ADD A,y; DAA or SUB y; DAA with A = x (B holds a copy of x).
InitBcd ==
    \E opcode \in {\hC6, \hD6}, x \in BcdBytes, y \in BcdBytes :
       CpuStart(<<opcode, y, \h27>>,
                [cpu_init_state EXCEPT !.a = x, !.b = x], PowerOnMemory)

SpecBcd == InitBcd /\ [][NextCpu]_vars

\* Bit `flag` of the flag byte f.
FlagSet(f, flag) == (f \div flag) % 2 = 1

\* An INC took v to result and the flags from f to g.
IncOk(v, result, f, g) ==
    /\ result = (v + 1) % 256
    /\ FlagSet(g, \h80) <=> result = 0
    /\ ~FlagSet(g, \h40)
    /\ FlagSet(g, \h20) <=> result % 16 = 0
    /\ FlagSet(g, \h10) <=> FlagSet(f, \h10)

\* A DEC took v to result and the flags from f to g.
DecOk(v, result, f, g) ==
    /\ result = (v + 255) % 256
    /\ FlagSet(g, \h80) <=> result = 0
    /\ FlagSet(g, \h40)
    /\ FlagSet(g, \h20) <=> v % 16 = 0
    /\ FlagSet(g, \h10) <=> FlagSet(f, \h10)

\* C12: for every implemented 8-bit INC and DEC (registers and (HL)) and every
\* operand value the result is the operand plus or minus 1 mod 256, Z is set iff
\* the result is 0, H iff the low nibble carried (INC) or borrowed (DEC), N is 0
\* for INC and 1 for DEC, C is unchanged; LD B,5; INC B; DEC B; DEC B leaves B = 4
\* with Z = 0, N = 1, H = 0.
IncDecResultAndFlags ==
    [][last'.op = "execute_cpu_cycle"
         => LET opcode == memory_read(memory, cpu.pc) IN
            /\ opcode = \h04 => IncOk(cpu.b, cpu'.b, cpu.f, cpu'.f)
            /\ opcode = \h0C => IncOk(cpu.c, cpu'.c, cpu.f, cpu'.f)
            /\ opcode = \h14 => IncOk(cpu.d, cpu'.d, cpu.f, cpu'.f)
            /\ opcode = \h1C => IncOk(cpu.e, cpu'.e, cpu.f, cpu'.f)
            /\ opcode = \h24 => IncOk(cpu.h, cpu'.h, cpu.f, cpu'.f)
            /\ opcode = \h2C => IncOk(cpu.l, cpu'.l, cpu.f, cpu'.f)
            /\ opcode = \h05 => DecOk(cpu.b, cpu'.b, cpu.f, cpu'.f)
            /\ opcode = \h0D => DecOk(cpu.c, cpu'.c, cpu.f, cpu'.f)
            /\ opcode = \h15 => DecOk(cpu.d, cpu'.d, cpu.f, cpu'.f)
            /\ opcode = \h1D => DecOk(cpu.e, cpu'.e, cpu.f, cpu'.f)
            /\ opcode = \h25 => DecOk(cpu.h, cpu'.h, cpu.f, cpu'.f)
            /\ opcode = \h3D => DecOk(cpu.a, cpu'.a, cpu.f, cpu'.f)
            /\ opcode = \h35
                 => LET v == memory_read(memory, get_hl(cpu)) IN
                    DecOk(v, IF get_hl(cpu) >= \h8000
                             THEN memory_read(memory', get_hl(cpu))
                             ELSE (v + 255) % 256, cpu.f, cpu'.f)
            /\ (cart = Image(IncDecRom) /\ cpu'.pc = \h0105)
                 => (cpu'.b = 4 /\ ~FlagSet(cpu'.f, \h80) /\ FlagSet(cpu'.f, \h40)
                       /\ ~FlagSet(cpu'.f, \h20))]_vars

\* LD B,5; INC B; DEC B; DEC B has run: B = 4, N set, the carry of power-on kept.
IncDecSequenceRun ==
    /\ cart = Image(IncDecRom)
    /\ cpu.pc = \h0105
    /\ calls = 4
    /\ cpu.b = 4
    /\ cpu.f = \h50

\* An addition took the accumulator from a to result with operand v and carry-in
\* cin, leaving the flags g.
AddOk(a, v, cin, result, g) ==
    /\ result = (a + v + cin) % 256
    /\ FlagSet(g, \h80) <=> result = 0
    /\ ~FlagSet(g, \h40)
    /\ FlagSet(g, \h20) <=> (a % 16) + (v % 16) + cin >= 16
    /\ FlagSet(g, \h10) <=> a + v + cin >= 256

\* The flags g are those of the subtraction a - v - cin, whose result is result.
SubOk(a, v, cin, result, g) ==
    /\ result = (a + 512 - v - cin) % 256
    /\ FlagSet(g, \h80) <=> result = 0
    /\ FlagSet(g, \h40)
    /\ FlagSet(g, \h20) <=> (a % 16) - (v % 16) - cin < 0
    /\ FlagSet(g, \h10) <=> a - v - cin < 0

\* C13: for ADD A,A, ADD A,d8, ADC A,d8, SUB d8, SBC A,d8, CP d8 and CP (HL), for
\* every accumulator a, operand v and incoming carry c, the result is a + v [+ c]
\* or a - v [- c] mod 256, Z is set iff the result is 0, N is 0 for ADD/ADC and 1
\* for SUB/SBC/CP, H is set iff bit 3 carries or borrows and C iff bit 7 carries
\* or borrows (carry-in included for ADC/SBC), and CP leaves the accumulator.
ArithmeticResultAndFlags ==
    [][last'.op = "execute_cpu_cycle"
         => LET opcode == memory_read(memory, cpu.pc)
                d8 == memory_read(memory, (cpu.pc + 1) % 65536)
                atHL == memory_read(memory, cpu.h * 256 + cpu.l)
                cin == IF FlagSet(cpu.f, \h10) THEN 1 ELSE 0
            IN  /\ opcode = \h87 => AddOk(cpu.a, cpu.a, 0, cpu'.a, cpu'.f)
                /\ opcode = \hC6 => AddOk(cpu.a, d8, 0, cpu'.a, cpu'.f)
                /\ opcode = \hCE => AddOk(cpu.a, d8, cin, cpu'.a, cpu'.f)
                /\ opcode = \hD6 => SubOk(cpu.a, d8, 0, cpu'.a, cpu'.f)
                /\ opcode = \hDE => SubOk(cpu.a, d8, cin, cpu'.a, cpu'.f)
                /\ opcode = \hFE
                     => SubOk(cpu.a, d8, 0, (cpu.a + 512 - d8) % 256, cpu'.f)
                          /\ cpu'.a = cpu.a
                /\ opcode = \hBE
                     => SubOk(cpu.a, atHL, 0, (cpu.a + 512 - atHL) % 256, cpu'.f)
                          /\ cpu'.a = cpu.a]_vars

\* ADC A,0x0F has run on A = 0xF0 with the carry set: the carry-in carried out of
\* bit 3 and of bit 7, A = 0x00 with Z, H and C set.
AdcCarriedThrough ==
    /\ cart = Image(<<\hCE, \h0F>>)
    /\ last.op = "execute_cpu_cycle"
    /\ cpu.pc = \h0102
    /\ cpu.a = \h00
    /\ cpu.f = \hB0

\* ADD HL,rr took HL from hl to result with the operand v and the flags from f to g.
AddHLOk(hl, v, f, result, g) ==
    /\ result = (hl + v) % 65536
    /\ FlagSet(g, \h10) <=> hl + v > 65535
    /\ FlagSet(g, \h20) <=> (hl % 4096) + (v % 4096) > 4095
    /\ ~FlagSet(g, \h40)
    /\ FlagSet(g, \h80) <=> FlagSet(f, \h80)

\* C14: for ADD HL,BC, ADD HL,DE and ADD HL,HL and every pair of 16-bit operands
\* HL becomes the sum mod 65536, C is set iff the sum exceeds 0xFFFF, H iff the sum
\* of the low 12 bits exceeds 0x0FFF, N is cleared and Z keeps its value.
AddHLResultAndFlags ==
    [][last'.op = "execute_cpu_cycle"
         => LET opcode == memory_read(memory, cpu.pc)
                hl == cpu.h * 256 + cpu.l
                result == cpu'.h * 256 + cpu'.l
            IN  /\ opcode = \h09
                     => AddHLOk(hl, cpu.b * 256 + cpu.c, cpu.f, result, cpu'.f)
                /\ opcode = \h19
                     => AddHLOk(hl, cpu.d * 256 + cpu.e, cpu.f, result, cpu'.f)
                /\ opcode = \h29 => AddHLOk(hl, hl, cpu.f, result, cpu'.f)]_vars

\* ADD HL,DE has run on HL = 0x0800 and DE = 0x0800: HL = 0x1000, H set out of
\* bit 11, C clear, N cleared, Z kept.
AddHLHalfCarried ==
    /\ cart = Image(<<\h19>>)
    /\ last.op = "execute_cpu_cycle"
    /\ cpu.d = \h08 /\ cpu.e = \h00
    /\ cpu.h = \h10 /\ cpu.l = \h00
    /\ cpu.f = \hA0

\* C15: for every accumulator value and every combination of N, H and C, DAA
\* corrects by 0x06 if H is set or (N clear and the low nibble > 9), and by 0x60
\* with C set if C is set or (N clear and the value > 0x99); the correction is
\* added when N is clear and subtracted when N is set (mod 256); afterwards Z is
\* set iff the accumulator is 0, N is unchanged, H is cleared and C is set iff the
\* 0x60 correction was applied.
DaaCorrects ==
    [][(last'.op = "execute_cpu_cycle" /\ memory_read(memory, cpu.pc) = \h27)
         => LET n == FlagSet(cpu.f, \h40)
                low == FlagSet(cpu.f, \h20) \/ (~n /\ cpu.a % 16 > 9)
                high == FlagSet(cpu.f, \h10) \/ (~n /\ cpu.a > 153)
                by == (IF low THEN 6 ELSE 0) + (IF high THEN 96 ELSE 0)
            IN  /\ cpu'.a = IF n THEN (cpu.a + 256 - by) % 256 ELSE (cpu.a + by) % 256
                /\ FlagSet(cpu'.f, \h80) <=> cpu'.a = 0
                /\ FlagSet(cpu'.f, \h40) <=> n
                /\ ~FlagSet(cpu'.f, \h20)
                /\ FlagSet(cpu'.f, \h10) <=> high]_vars

\* DAA has run after a subtraction (N set) with H set on A = 0x0F: 0x06 was
\* subtracted, A = 0x09, N kept, H and C clear.
DaaSubtracted ==
    /\ cart = Image(<<\h27>>)
    /\ last.op = "execute_cpu_cycle"
    /\ cpu.a = \h09
    /\ cpu.f = \h40

\* C16: for every accumulator value and carry flag, RLCA and RRCA rotate the
\* accumulator by one bit circularly, the bit shifted out going to C and to the
\* vacated bit; RLA and RRA rotate through carry, the bit shifted out going to C
\* and the previous C to the vacated bit; all four clear Z, N and H.
RotatesAccumulator ==
    [][last'.op = "execute_cpu_cycle"
         => LET opcode == memory_read(memory, cpu.pc)
                cin == IF FlagSet(cpu.f, \h10) THEN 1 ELSE 0
                top == cpu.a \div 128
                bottom == cpu.a % 2
            IN  /\ opcode = \h07
                     => cpu'.a = ((cpu.a * 2) % 256) + top /\ cpu'.f = 16 * top
                /\ opcode = \h0F
                     => cpu'.a = (cpu.a \div 2) + 128 * bottom /\ cpu'.f = 16 * bottom
                /\ opcode = \h17
                     => cpu'.a = ((cpu.a * 2) % 256) + cin /\ cpu'.f = 16 * top
                /\ opcode = \h1F
                     => cpu'.a = (cpu.a \div 2) + 128 * cin /\ cpu'.f = 16 * bottom]_vars

\* RLA has run on A = 0x80 with the carry clear: A = 0x00, C set, Z left clear.
RlaShiftedOut ==
    /\ cart = Image(<<\h17>>)
    /\ last.op = "execute_cpu_cycle"
    /\ cpu.b = \h80
    /\ cpu.a = \h00
    /\ cpu.f = \h10

\* C17: for every accumulator value, RLCA and then RRCA leave the accumulator
\* equal to its starting value (kept in B).
RlcaRrcaRestores ==
    (cart = Image(RotateBackRom) /\ cpu.pc = \h0102) => cpu.a = cpu.b

\* RLCA; RRCA has run on A = 0x81: A is 0x81 again.
RotatedBack ==
    /\ cart = Image(RotateBackRom)
    /\ cpu.pc = \h0102
    /\ calls = 2
    /\ cpu.b = \h81
    /\ cpu.a = \h81

\* The two bytes a push from sp writes, sp-1 and sp-2, are at or above 0x8000.
StackInRam(sp) == (sp + 65535) % 65536 >= 32768 /\ (sp + 65534) % 65536 >= 32768

\* C18: for every value of BC and every stack pointer value, PUSH BC followed
\* immediately by POP DE leaves DE equal to BC and sp equal to its value before
\* the PUSH; PUSH stores the high byte at sp-1 and the low byte at sp-2.
PushPopRoundTrip ==
    [][last'.op = "execute_cpu_cycle"
         => LET opcode == memory_read(memory, cpu.pc) IN
            /\ opcode = \hC5
                 => /\ cpu'.sp = (cpu.sp + 65534) % 65536
                    /\ memory_read(memory', (cpu.sp + 65535) % 65536) = cpu.b
                    /\ memory_read(memory', (cpu.sp + 65534) % 65536) = cpu.c
            /\ (cart = Image(PushPopRom) /\ cpu'.pc = \h0102)
                 => /\ cpu'.d = cpu'.b /\ cpu'.e = cpu'.c
                    /\ cpu'.sp = cpu'.h * 256 + cpu'.l]_vars

\* C18, amended: for every value of BC and every stack pointer value sp whose two
\* stack bytes sp-1 and sp-2 (mod 65536) are at or above 0x8000, PUSH BC followed
\* immediately by POP DE leaves DE equal to BC and sp equal to its value before
\* the PUSH; PUSH stores the high byte at sp-1 and the low byte at sp-2, POP reads
\* the low byte at sp and the high byte at sp+1.
PushPopRoundTripInRam ==
    [][last'.op = "execute_cpu_cycle"
         => LET opcode == memory_read(memory, cpu.pc) IN
            /\ (opcode = \hC5 /\ StackInRam(cpu.sp))
                 => /\ cpu'.sp = (cpu.sp + 65534) % 65536
                    /\ memory_read(memory', (cpu.sp + 65535) % 65536) = cpu.b
                    /\ memory_read(memory', (cpu.sp + 65534) % 65536) = cpu.c
            /\ opcode = \hD1
                 => /\ cpu'.e = memory_read(memory, cpu.sp)
                    /\ cpu'.d = memory_read(memory, (cpu.sp + 1) % 65536)
                    /\ cpu'.sp = (cpu.sp + 2) % 65536
            /\ (cart = Image(PushPopRom) /\ cpu'.pc = \h0102
                   /\ StackInRam(cpu'.h * 256 + cpu'.l))
                 => /\ cpu'.d = cpu'.b /\ cpu'.e = cpu'.c
                    /\ cpu'.sp = cpu'.h * 256 + cpu'.l]_vars

\* PUSH BC; POP DE has run with BC = 0x1234 and sp = 0xFFFE: DE = 0x1234, sp is
\* 0xFFFE again, 0x12 is at 0xFFFD and 0x34 at 0xFFFC.
PushPopRun ==
    /\ cart = Image(PushPopRom)
    /\ cpu.pc = \h0102
    /\ cpu.d = \h12 /\ cpu.e = \h34
    /\ cpu.sp = \hFFFE
    /\ memory_read(memory, \hFFFD) = \h12
    /\ memory_read(memory, \hFFFC) = \h34

ConditionalJr == {\h20, \h28, \h30, \h38}
ConditionalJp == {\hC2, \hCA, \hD2, \hDA}
ConditionalCall == {\hC4, \hCC, \hD4, \hDC}
ConditionalRet == {\hC0, \hC8, \hD0, \hD8}

\* The flag byte f has the value the conditional opcode tests for: NZ, Z, NC, C.
ConditionMet(opcode, f) ==
    \/ opcode \in {\h20, \hC0, \hC2, \hC4} /\ ~FlagSet(f, \h80)
    \/ opcode \in {\h28, \hC8, \hCA, \hCC} /\ FlagSet(f, \h80)
    \/ opcode \in {\h30, \hD0, \hD2, \hD4} /\ ~FlagSet(f, \h10)
    \/ opcode \in {\h38, \hD8, \hDA, \hDC} /\ FlagSet(f, \h10)

\* The step from the unprimed to the primed state is what the instruction `opcode`
\* at cpu.pc does, if it is JR r8 or a conditional jump, call or return: the
\* unconditional effect when the condition is met, and otherwise only pc moved
\* past the operand bytes.
JumpStepOk(opcode) ==
    LET d8 == memory_read(memory, (cpu.pc + 1) % 65536)
        a16 == d8 + 256 * memory_read(memory, (cpu.pc + 2) % 65536)
        s == IF d8 >= 128 THEN d8 - 256 ELSE d8
        met == ConditionMet(opcode, cpu.f)
        jumped == [cpu EXCEPT !.pc = (cpu.pc + 2 + s + 65536) % 65536]
        past(n) == [cpu EXCEPT !.pc = (cpu.pc + n) % 65536]
    IN  /\ opcode = \h18 => cpu' = jumped /\ memory' = memory
        /\ opcode \in ConditionalJr
             => /\ cpu' = IF met THEN jumped ELSE past(2)
                /\ memory' = memory
        /\ opcode \in ConditionalJp
             => /\ cpu' = IF met THEN [cpu EXCEPT !.pc = a16] ELSE past(3)
                /\ memory' = memory
        /\ opcode \in ConditionalCall
             => IF met
                THEN /\ cpu' = [cpu EXCEPT !.pc = a16, !.sp = (cpu.sp + 65534) % 65536]
                     /\ memory_read(memory', cpu'.sp + 1) = ((cpu.pc + 3) % 65536) \div 256
                     /\ memory_read(memory', cpu'.sp) = (cpu.pc + 3) % 256
                ELSE cpu' = past(3) /\ memory' = memory
        /\ opcode \in ConditionalRet
             => /\ cpu' = IF met
                          THEN [cpu EXCEPT
                                  !.pc = memory_read(memory, cpu.sp)
                                           + 256 * memory_read(memory, cpu.sp + 1),
                                  !.sp = (cpu.sp + 2) % 65536]
                          ELSE past(1)
                /\ memory' = memory

\* C20: JR r8 at address p sets pc to (p + 2 + s) mod 65536, s being the operand
\* read as a signed byte; the conditional JR, JP, CALL and RET forms act (as their
\* unconditional forms do) only when the tested Z or C flag has the required
\* value, and otherwise pc just advances past the operand bytes while sp, the
\* registers, the flags and memory are unchanged.
JumpsActOnCondition ==
    [][last'.op = "execute_cpu_cycle" => JumpStepOk(memory_read(memory, cpu.pc))]_vars

\* C20 for the forms the switch has a case for, that is all but JR NC, JR C and
\* CALL NZ: each does what C20 states.
DecodedJumpsActOnCondition ==
    [][(last'.op = "execute_cpu_cycle" /\ memory_read(memory, cpu.pc) \in Implemented)
         => JumpStepOk(memory_read(memory, cpu.pc))]_vars

\* CALL Z,0150 at 0100 was passed over with Z clear (sp still 0xD000, nothing
\* pushed) and the JR +7F at 0103 has jumped to 0x0184.
CallSkippedThenJumped ==
    /\ cart = Image(JumpSequenceRom)
    /\ calls = 2
    /\ cpu.f = \h10
    /\ cpu.sp = \hD000
    /\ memory = PowerOnMemory
    /\ cpu.pc = \h0184

\* C21: executing the HALT opcode 0x76 sets halted; from then on every CPU step is
\* a no-op that leaves pc, sp, the registers, the flags and memory unchanged, and
\* halted never becomes false again.
HaltStopsCpu ==
    [][last'.op = "execute_cpu_cycle"
         => /\ (~cpu.halted /\ memory_read(memory, cpu.pc) = \h76) => cpu'.halted
            /\ cpu.halted => (cpu' = cpu /\ memory' = memory)]_vars

\* C22: executing an opcode that has no handler advances pc by exactly 1 (by
\* exactly 2 for a CB prefix with an unhandled second byte), changes no other
\* register, flag or memory byte, does not set halted, and reports the opcode
\* value and its pc as a diagnostic; the next step fetches from the new pc.
UnknownOpcodeReported ==
    [][last'.op = "execute_cpu_cycle"
         => LET opcode == memory_read(memory, cpu.pc)
                cb_opcode == memory_read(memory, (cpu.pc + 1) % 65536)
            IN  /\ opcode \notin Implemented
                     => /\ cpu' = [cpu EXCEPT !.pc = (cpu.pc + 1) % 65536]
                        /\ memory' = memory
                        /\ last'.printed = <<opcode, cpu.pc>>
                /\ (opcode = \hCB /\ cb_opcode \notin CbImplemented)
                     => /\ cpu' = [cpu EXCEPT !.pc = (cpu.pc + 2) % 65536]
                        /\ memory' = memory
                        /\ last'.printed = <<cb_opcode, cpu.pc>>]_vars

\* C22 without the diagnostic of the outer switch: an opcode without a handler
\* only moves pc, by 1 or (CB prefix) by 2, and the CB case reports the second
\* byte and the pc of the prefix.
UnknownOpcodeOnlyAdvances ==
    [][last'.op = "execute_cpu_cycle"
         => LET opcode == memory_read(memory, cpu.pc)
                cb_opcode == memory_read(memory, (cpu.pc + 1) % 65536)
            IN  /\ opcode \notin Implemented
                     => /\ cpu' = [cpu EXCEPT !.pc = (cpu.pc + 1) % 65536]
                        /\ memory' = memory
                /\ (opcode = \hCB /\ cb_opcode \notin CbImplemented)
                     => /\ cpu' = [cpu EXCEPT !.pc = (cpu.pc + 2) % 65536]
                        /\ memory' = memory
                        /\ last'.printed = <<cb_opcode, cpu.pc>>]_vars

\* The unassigned opcode 0xD3 at 0100 was skipped without a diagnostic and the
\* INC B at 0101 has run on B = 0x0F.
UnknownThenIncB ==
    /\ cart = Image(<<\hD3, \h04>>)
    /\ calls = 2
    /\ cpu.pc = \h0102
    /\ cpu.b = \h10
    /\ last.printed = <<>>

\* The value the CB operation selected by bits 3 to 7 of the second byte makes of
\* the operand v with the incoming carry cin: RLC, RRC, RL, RR, SLA, SRA, SWAP,
\* SRL, BIT (operand kept), RES and SET of bit (byte / 8) mod 8.
CbResult(cb_opcode, v, cin) ==
    CASE cb_opcode \in \h00 .. \h07 -> ((v * 2) % 256) + (v \div 128)
      [] cb_opcode \in \h08 .. \h0F -> (v \div 2) + 128 * (v % 2)
      [] cb_opcode \in \h10 .. \h17 -> ((v * 2) % 256) + cin
      [] cb_opcode \in \h18 .. \h1F -> (v \div 2) + 128 * cin
      [] cb_opcode \in \h20 .. \h27 -> (v * 2) % 256
      [] cb_opcode \in \h28 .. \h2F -> (v \div 2) + 128 * (v \div 128)
      [] cb_opcode \in \h30 .. \h37 -> 16 * (v % 16) + (v \div 16)
      [] cb_opcode \in \h38 .. \h3F -> v \div 2
      [] cb_opcode \in \h40 .. \h7F -> v
      [] cb_opcode \in \h80 .. \hBF -> ClearBit(v, (cb_opcode \div 8) % 8)
      [] cb_opcode \in \hC0 .. \hFF -> SetBit(v, (cb_opcode \div 8) % 8)

\* The CB step from the unprimed to the primed state applied the operation of
\* the second byte to the operand its low 3 bits select (B, C, D, E, H, L,
\* memory at (HL), A).
CbStepOk(cb_opcode) ==
    CbOperand(cpu', memory', cb_opcode % 8)
      = CbResult(cb_opcode, CbOperand(cpu, memory, cb_opcode % 8),
                 IF FlagSet(cpu.f, \h10) THEN 1 ELSE 0)

\* C23: every second byte 0x00..0xFF of a CB-prefixed instruction decodes to one
\* of RLC, RRC, RL, RR, SLA, SRA, SWAP, SRL, BIT, RES, SET and applies it to the
\* operand chosen by the byte's low 3 bits in the order B, C, D, E, H, L, memory
\* at (HL), A; RES and SET act on the bit number given by bits 3 to 5.
CbDecodesEveryByte ==
    [][(last'.op = "execute_cpu_cycle" /\ memory_read(memory, cpu.pc) = \hCB)
         => CbStepOk(memory_read(memory, (cpu.pc + 1) % 65536))]_vars

\* C23 for the second bytes the inner switch has a case for: the eight
\* rotates and shifts of A, every BIT, RES 0,A and SET 0,A.
CbDecodesImplementedBytes ==
    [][(last'.op = "execute_cpu_cycle" /\ memory_read(memory, cpu.pc) = \hCB
          /\ memory_read(memory, (cpu.pc + 1) % 65536) \in CbImplemented)
         => CbStepOk(memory_read(memory, (cpu.pc + 1) % 65536))]_vars

\* The register the low 3 bits of a CB second byte select ("m" for memory at (HL)).
CbRegister == <<"b", "c", "d", "e", "h", "l", "m", "a">>

\* C24: for every CB second byte in 0x40..0x7F and every operand value, BIT sets Z
\* iff bit ((byte - 0x40) / 8) of the operand selected by (byte mod 8) is 0, sets
\* H, clears N, keeps C, and leaves the operand, all other registers and memory
\* unchanged; RES and SET (0x80..0xFF) change only the addressed bit and leave
\* the flag register unchanged.
BitTestsResSetKeepFlags ==
    [][(last'.op = "execute_cpu_cycle" /\ memory_read(memory, cpu.pc) = \hCB)
         => LET cb_opcode == memory_read(memory, (cpu.pc + 1) % 65536)
                reg == cb_opcode % 8
                n == (cb_opcode \div 8) % 8
                before == CbOperand(cpu, memory, reg)
                after == CbOperand(cpu', memory', reg)
                next == (cpu.pc + 2) % 65536
            IN  /\ cb_opcode \in \h40 .. \h7F
                     => /\ FlagSet(cpu'.f, \h80) <=> Bit(before, n) = 0
                        /\ ~FlagSet(cpu'.f, \h40)
                        /\ FlagSet(cpu'.f, \h20)
                        /\ FlagSet(cpu'.f, \h10) <=> FlagSet(cpu.f, \h10)
                        /\ cpu' = [cpu EXCEPT !.pc = next, !.f = cpu'.f]
                        /\ memory' = memory
                /\ cb_opcode \in \h80 .. \hFF
                     => /\ cpu'.f = cpu.f
                        /\ ClearBit(after, n) = ClearBit(before, n)
                        /\ \A r \in {"a", "b", "c", "d", "e", "h", "l"} :
                              r # CbRegister[reg + 1] => cpu'[r] = cpu[r]
                        /\ [cpu' EXCEPT !.a = 0, !.b = 0, !.c = 0, !.d = 0, !.e = 0,
                                        !.h = 0, !.l = 0]
                             = [cpu EXCEPT !.pc = next, !.a = 0, !.b = 0, !.c = 0,
                                           !.d = 0, !.e = 0, !.h = 0, !.l = 0]
                        /\ \A address \in DOMAIN memory \cup DOMAIN memory' :
                              (reg # 6 \/ address # get_hl(cpu))
                                 => Peek(memory', address) = Peek(memory, address)
                /\ cb_opcode = \h87 => cpu'.a = ClearBit(cpu.a, 0)
                /\ cb_opcode = \hC7 => cpu'.a = SetBit(cpu.a, 0)]_vars

\* BIT 0,(HL) has run on the byte 0x80 at 0xC010 with the flags 0xE0: bit 0 is 0,
\* so Z is set, H is set, N is cleared, C stays clear, the byte is still 0x80.
BitTestedMemory ==
    /\ cart = Image(<<\hCB, \h46>>)
    /\ last.op = "execute_cpu_cycle"
    /\ cpu.pc = \h0102
    /\ get_hl(cpu) = \hC010
    /\ memory_read(memory, \hC010) = \h80
    /\ cpu.a = \h80
    /\ cpu.f = \hA0

\* C25: in every state reachable from power-on by any sequence of CPU steps over
\* any ROM contents, the low nibble of the flag register f is 0, and pc and sp are
\* in 0..65535 (every increment, decrement and relative jump wraps mod 65536).
FlagNibbleClearAndWidthsKept ==
    /\ cpu.f \in 0 .. 255
    /\ cpu.f % 16 = 0
    /\ cpu.pc \in 0 .. 65535
    /\ cpu.sp \in 0 .. 65535

\* JP FFFE and the JR +0 found at 0xFFFE have run: pc went past 0xFFFF and is
\* 0x0000.
PcWrapped ==
    /\ cart = Image(<<\hC3, \hFE, \hFF>>)
    /\ calls = 2
    /\ memory_read(memory, \hFFFE) = \h18
    /\ memory_read(memory, \hFFFF) = \h00
    /\ cpu.pc = \h0000
    /\ cpu.f % 16 = 0

\* The interrupt vectors of the hardware.
InterruptVectors == {\h0040, \h0048, \h0050, \h0058, \h0060}

\* C26: interrupts_enabled is changed only by DI (to false) and EI (to true) and
\* influences nothing else: the step the CPU takes from the state that differs
\* only in interrupts_enabled ends in the same pc, sp, registers, flags and
\* memory, the timer and PPU steps neither read nor write the CPU state, and no
\* step transfers control to an interrupt vector.
InterruptFlagIsInert ==
    [][LET opcode == memory_read(memory, cpu.pc)
           twin == execute_cpu_cycle([cpu EXCEPT !.interrupts_enabled = ~@], memory)
       IN  /\ cpu'.interrupts_enabled # cpu.interrupts_enabled
                => (last'.op = "execute_cpu_cycle" /\ opcode \in {\hF3, \hFB})
           /\ last'.op = "execute_cpu_cycle"
                => /\ opcode = \hF3 => ~cpu'.interrupts_enabled
                   /\ opcode = \hFB => cpu'.interrupts_enabled
                   /\ twin.mem = memory'
                   /\ [twin.cpu EXCEPT !.interrupts_enabled = cpu'.interrupts_enabled]
                        = cpu'
                   /\ opcode \notin {\hF3, \hFB}
                        => twin.cpu.interrupts_enabled = ~cpu'.interrupts_enabled
                   /\ cpu'.pc \notin InterruptVectors
                   /\ UNCHANGED <<timer_state, ppu, framebuffer>>
           /\ last'.op \in {"ppu_update", "timer_update", "input_update", "ppu_render_frame"}
                => cpu' = cpu]_vars

\* EI has run with all five interrupts requested in IF and enabled in IE, and
\* the driver has gone on to the next instruction in line, LD A,1F at 0101.
InterruptPendingNotTaken ==
    /\ cart = IntRom
    /\ cpu.interrupts_enabled
    /\ memory_read(memory, \hFF0F) = \h1F
    /\ memory_read(memory, \hFFFF) = \h1F
    /\ last.op = "execute_cpu_cycle"
    /\ cpu.pc = \h0103
    /\ cpu.sp = \hFFFE


\* C27: every driver iteration advances both the timer and the PPU by exactly 4
\* cycles, whatever opcode the CPU executed in that iteration (unknown opcodes,
\* taken and untaken branches included): each CPU step is followed by one PPU
\* step and one timer step, the PPU's 16-bit cycle counter grows by 4 (less a
\* whole mode period when the mode ends) and the divider's cycle counter by 4
\* mod 256.
FlatFourCyclesPerIteration ==
    [][/\ last'.op = "execute_cpu_cycle" => (pc = "cpu" /\ pc' = "ppu")
       /\ pc = "ppu"
            => /\ last' = [NoOp EXCEPT !.op = "ppu_update", !.cycles = 4]
               /\ pc' = "input"
               /\ \/ ppu'.cycles = (ppu.cycles + 4) % 65536
                  \/ \E period \in PpuModePeriods :
                        /\ ppu.cycles + 4 >= period
                        /\ ppu'.cycles = ppu.cycles + 4 - period
               /\ timer_state' = timer_state
       /\ pc = "input" => pc' = "timer" /\ ppu' = ppu /\ timer_state' = timer_state
       /\ pc = "timer"
            => /\ last' = [NoOp EXCEPT !.op = "timer_update", !.cycles = 4]
               /\ pc' = "cpu"
               /\ timer_state'.divider_cycles = (timer_state.divider_cycles + 4) % 256
               /\ ppu' = ppu
       /\ pc = "cpu" => timer_state' = timer_state /\ ppu'.cycles = ppu.cycles]_vars

\* The iteration of the opcode 0xD3, which has no case, is complete: it was the
\* sixth instruction, and the PPU and the divider have counted 4 cycles for each
\* of the six.
SixIterationsCharged ==
    /\ cart = IntRom
    /\ instruction_count = 6
    /\ cpu.pc = \h0109
    /\ pc = "cpu"
    /\ last = [NoOp EXCEPT !.op = "timer_update", !.cycles = 4]
    /\ ppu.cycles = 24
    /\ timer_state.divider_cycles = 24


\* The shade the claim gives pixel x of scanline `line`, from the registers and
\* video RAM in m.
ShadeAt(m, x, line) ==
    LET control == memory_read(m, \hFF40)
        bx == (x + memory_read(m, \hFF43)) % 256
        by == (line + memory_read(m, \hFF42)) % 256
        base == IF Bit(control, 3) = 1 THEN \h9C00 ELSE \h9800
        index == memory_read(m, base + 32 * (by \div 8) + (bx \div 8))
        data == IF Bit(control, 4) = 1
                THEN \h8000 + 16 * index
                ELSE \h9000 + 16 * (Int8(index) + 128)
        first == memory_read(m, data + 2 * (by % 8))
        second == memory_read(m, data + 2 * (by % 8) + 1)
        id == 2 * Bit(second, 7 - (bx % 8)) + Bit(first, 7 - (bx % 8))
    IN  (memory_read(m, \hFF47) \div (2 ^ (2 * id))) % 4

\* C28: when the H-Blank of a line ends with the LCD and the background enabled,
\* every pixel x in 0..159 of that line in the frame buffer holds the characters
\* of the shade (BGP >> (2*id)) & 3, with the tile index read from the selected
\* map at 32*(by / 8) + bx / 8 for bx = (x + SCX) mod 256, by = (line + SCY) mod
\* 256, the two row bytes read at the tile's data address + 2*(by mod 8), and id
\* made of bit 7 - bx mod 8 of the second byte (high) and of the first (low).
ScanlineHoldsPaletteShades ==
    [][(/\ last'.op = "ppu_update"
        /\ ppu.mode = 0 /\ ppu'.line # ppu.line
        /\ Bit(memory_read(memory, LCDC), 7) = 1
        /\ Bit(memory_read(memory, LCDC), 0) = 1)
       => \A x \in 0..(GB_SCREEN_WIDTH - 1) :
             FbPixel(framebuffer', ppu.line, x)
                = pixel_chars[ShadeAt(memory, x, ppu.line) + 1]]_vars

\* Line 7 was rendered from the second map with the scroll wrapping around the
\* background and the reversed palette, and holds all four shades.
ScrolledLineRendered ==
    /\ last.op = "ppu_update" /\ ppu.line = 8 /\ ppu.mode = 2
    /\ memory_read(memory, LCDC) = \h89
    /\ memory_read(memory, SCX) = 250 /\ memory_read(memory, SCY) = 254
    /\ memory_read(memory, BGP) = \h1B
    /\ \A shade \in 0..3 :
          \E x \in 0..(GB_SCREEN_WIDTH - 1) :
             FbPixel(framebuffer, 7, x) = pixel_chars[shade + 1]


\* The title the claim reads from a loaded image: the bytes from 0x134 up to the
\* first zero, 15 at most.
HeaderTitle(c) ==
    LET zeros == {n \in 0..15 : CartByte(c, \h0134 + n) = 0}
        first == IF zeros = {} THEN 15 ELSE CHOOSE n \in zeros : \A j \in zeros : n <= j
        length == IF first > 15 THEN 15 ELSE first
    IN  [k \in 1..length |-> CartByte(c, \h0134 + k - 1)]

\* C29: after a successful load of a ROM of at least 0x150 bytes the title is
\* the bytes from 0x134 up to, not including, the first zero byte, 15 characters
\* at most, and the type is the byte at 0x147; after a successful load of a
\* shorter ROM neither field has been written.
TitleAndTypeFromHeader ==
    [][(last'.op = "load_cartridge" /\ last'.value = 1)
       => /\ cart'.present
          /\ cart'.size >= \h0150
               => /\ TitleString(cart'.title) = HeaderTitle(cart')
                  /\ Len(TitleString(cart'.title)) <= 15
                  /\ cart'.type = CartByte(cart', \h0147)
          /\ cart'.size < \h0150
               => /\ \A k \in 1..16 : cart'.title[k] = Indeterminate
                  /\ cart'.type = Indeterminate]_vars

\* A 32 KiB ROM whose header spells TETRIS and names MBC1 is loaded.
TetrisLoaded ==
    /\ last.op = "load_cartridge" /\ last.value = 1
    /\ cart.size = \h8000
    /\ CartByte(cart, \h0134) = 84 /\ CartByte(cart, \h013A) = 0
    /\ TitleString(cart.title) = <<84, 69, 84, 82, 73, 83>>
    /\ cart.type = \h01

\* What cartridge_load prints on its four failure paths.
LoadFailures ==
    {<<"Failed to open ROM file">>, <<"Failed to allocate memory for cartridge">>,
     <<"Failed to allocate memory for ROM data">>, <<"Failed to read ROM data">>}

\* C30: when the file cannot be opened, an allocation fails or the read comes
\* short, the load returns failure, no cartridge object is left installed, and
\* the driver exits: no CPU step is taken then or later.
LoadFailureAbortsStartup ==
    [][/\ (last'.op = "load_cartridge" /\ last'.printed \in LoadFailures)
            => /\ last'.value = 0
               /\ cart' = NULL
               /\ pc' = "exit"
               /\ cpu' = cpu /\ instruction_count' = 0
       /\ (last'.op = "load_cartridge" /\ last'.printed \notin LoadFailures)
            => last'.value = 1
       /\ pc # "exit"
       /\ last'.op = "execute_cpu_cycle" => (last.op = "load_cartridge" /\ last.value = 1)]_vars

\* The read came short: the driver has exited with no cartridge installed.
ShortReadExited ==
    /\ pc = "exit"
    /\ last = [NoOp EXCEPT !.op = "load_cartridge", !.printed = <<"Failed to read ROM data">>]
    /\ cart = NULL
    /\ instruction_count = 0


\* C31: the current-line register at 0xFF44 is written only by the PPU: after
\* every PPU advance it equals the PPU's current scanline, and no CPU instruction
\* changes the value read at 0xFF44.
CurrentLineWrittenOnlyByPpu ==
    [][/\ last'.op = "ppu_update" => memory_read(memory', \hFF44) = ppu'.line
       /\ last'.op = "execute_cpu_cycle"
            => memory_read(memory', \hFF44) = memory_read(memory, \hFF44)]_vars


\* C32: after every PPU advance the current scanline is in 0..153, the mode is
\* V-Blank exactly when the scanline is in 144..153, the scanline rendered at the
\* end of an H-Blank (the line that ended) is in 0..143, and the frame buffer
\* holds nothing outside its 144 rows of 160 pixels.
ScanlineAndModeInRange ==
    [][last'.op = "ppu_update"
         => /\ ppu'.line \in 0..153
            /\ ppu'.mode = 1 <=> ppu'.line \in 144..153
            /\ (ppu.mode = 0 /\ ppu'.line # ppu.line)
                 => /\ (ppu'.line + 255) % 256 \in 0..143
                    /\ (ppu'.line + 255) % 256 = ppu.line
            /\ DOMAIN framebuffer' \subseteq 0..143
            /\ \A y \in DOMAIN framebuffer' : DOMAIN framebuffer'[y] \subseteq 0..159]_vars

\* The PPU has advanced onto the last V-Blank line of the first frame.
LastVBlankLineReached ==
    /\ last = [NoOp EXCEPT !.op = "ppu_update", !.cycles = 4]
    /\ ppu.line = 153 /\ ppu.mode = 1 /\ ppu.cycles = 0
    /\ memory_read(memory, LY) = 153
    /\ ppu.frame_count = 1


\* C33: while the LCD stays enabled every scanline lasts exactly 456 cycles, the
\* first after power-on included: the line changes on every 114th driver step,
\* the first frame-ready comes after 144 full scanlines and the next one 154
\* scanlines (70224 cycles, 17556 driver steps) later.  IdleRom and IntRom never
\* clear bit 7 of LCDC.
ScanlinesLast456Cycles ==
    [][(last'.op = "ppu_update" /\ cart \in {IdleRom, IntRom})
         => /\ ppu'.line # ppu.line <=> instruction_count % StepsPerLine = 0
            /\ (~ppu.frame_ready /\ ppu'.frame_ready)
                 => instruction_count \in {144 * StepsPerLine,
                                           144 * StepsPerLine + StepsPerFrame}]_vars

\* What holds instead: line 0 of the first frame lasts the 204 cycles (51 steps)
\* of its H-Blank, every later line 456 cycles, and the two frame-ready events are
\* 17556 driver steps apart.
ScanlinesLast456CyclesAfterFirst ==
    [][(last'.op = "ppu_update" /\ cart \in {IdleRom, IntRom})
         => /\ ppu'.line # ppu.line <=> (instruction_count + 63) % StepsPerLine = 0
            /\ (~ppu.frame_ready /\ ppu'.frame_ready)
                 => instruction_count \in {51 + 143 * StepsPerLine,
                                           51 + 143 * StepsPerLine + StepsPerFrame}]_vars

\* The second frame-ready of a run with the LCD on, 17556 steps after the first.
SecondFrameReady ==
    /\ cart = IdleRom
    /\ ppu.frame_ready /\ ppu.frame_count = 1
    /\ instruction_count = 51 + 143 * StepsPerLine + StepsPerFrame


\* The export of a frame: it follows a frame-ready, clears it and counts the frame.
ExportedOnce ==
    /\ last'.op = "ppu_render_frame" => ppu.frame_ready
    /\ (ppu.frame_ready /\ ~ppu'.frame_ready) <=> ppu'.frame_count = ppu.frame_count + 1
    /\ ppu'.frame_count # ppu.frame_count => last'.op = "ppu_render_frame"

\* C34 as stated: in the driver loop the CPU, the PPU and the timer are never
\* advanced while frame-ready is set, the frame buffer does not change between
\* the step that sets frame-ready and the export that clears it, and every
\* completed frame is exported exactly once.
NothingAdvancesWhileFrameReady ==
    [][/\ ppu.frame_ready
            => /\ last'.op \notin {"execute_cpu_cycle", "ppu_update", "timer_update"}
               /\ framebuffer' = framebuffer
       /\ ExportedOnce]_vars

\* C34, amended: the CPU and the PPU are never advanced while frame-ready is set,
\* and the timer only by the update_timer that ends the iteration in which the
\* PPU set the flag, after which nothing but the export runs; the frame buffer
\* does not change before the export and every completed frame is exported
\* exactly once.
CpuAndPpuWaitForExport ==
    [][/\ ppu.frame_ready
            => /\ last'.op \notin {"execute_cpu_cycle", "ppu_update"}
               /\ last'.op = "timer_update" => (pc = "timer" /\ pc' = "cpu")
               /\ pc = "cpu" => last'.op = "ppu_render_frame"
               /\ framebuffer' = framebuffer
       /\ (~ppu.frame_ready /\ ppu'.frame_ready) => (pc = "ppu" /\ pc' = "input")
       /\ ExportedOnce]_vars

\* The second frame is complete and the iteration that completed it has ended:
\* the timer ran once more, the export is next.
FrameAwaitingExport ==
    /\ ppu.frame_ready /\ ppu.frame_count = 1
    /\ last = [NoOp EXCEPT !.op = "timer_update", !.cycles = 4]
    /\ pc = "cpu"


\* The cycles the claim gives each mode: H-Blank, V-Blank, OAM scan, pixel transfer.
ModeThreshold(mode) ==
    CASE mode = 0 -> 204
      [] mode = 1 -> 456
      [] mode = 2 -> 80
      [] mode = 3 -> 172

\* C35: after every PPU advance made by the driver (4 cycles) the PPU's cycle
\* counter is strictly below the threshold of the mode it is now in, also in the
\* steps after a program has disabled the LCD.
CyclesBelowModeThreshold ==
    [][(last'.op = "ppu_update" /\ last'.cycles = 4)
         => ppu'.cycles < ModeThreshold(ppu'.mode)]_vars

\* What holds instead: the bound is kept in every advance made with the LCD
\* enabled since power-on.
CyclesBelowModeThresholdLcdOn ==
    [][(last'.op = "ppu_update" /\ last'.cycles = 4 /\ cart \in {IdleRom, IntRom})
         => ppu'.cycles < ModeThreshold(ppu'.mode)]_vars


\* The threshold the claim reads from the control register's low 2 bits.
SelectedThreshold(m) == <<1024, 16, 64, 256>>[(memory_read(m, \hFF07) % 4) + 1]

\* C36: after every timer advance made by the driver (4 cycles) with the timer
\* enabled the timer accumulator is strictly below the threshold the control
\* register selects, also after a program changed the speed bits to a faster
\* rate or disabled and re-enabled the timer.
AccumulatorBelowThreshold ==
    [][(last'.op = "timer_update" /\ Bit(memory_read(memory', \hFF07), 2) = 1)
         => timer_state'.timer_cycles < SelectedThreshold(memory')]_vars

\* What holds instead: the bound is kept by an advance that starts below the
\* threshold now selected, whatever was stored to the control register before.
AccumulatorStaysBelowThreshold ==
    [][(/\ last'.op = "timer_update"
        /\ Bit(memory_read(memory', \hFF07), 2) = 1
        /\ timer_state.timer_cycles < SelectedThreshold(memory))
         => timer_state'.timer_cycles < SelectedThreshold(memory')]_vars


BcdValue(byte) == 10 * (byte \div 16) + (byte % 16)
BcdByte(n) == 16 * (n \div 10) + (n % 10)

\* C38: for every pair of valid packed BCD bytes x and y, ADD A,y then DAA on
\* A = x leaves the BCD byte of (x + y) mod 100 in A, with C set iff the decimal
\* sum is 100 or more; SUB y then DAA leaves the BCD byte of (x - y) mod 100.
BcdArithmetic ==
    (last.op = "execute_cpu_cycle" /\ calls = 2 /\ cpu.pc = \h0103
       /\ memory_read(memory, \h0102) = \h27
       /\ cpu.b \in BcdBytes /\ memory_read(memory, \h0101) \in BcdBytes)
      => LET x == BcdValue(cpu.b)
             y == BcdValue(memory_read(memory, \h0101))
         IN  /\ memory_read(memory, \h0100) = \hC6
                  => /\ cpu.a = BcdByte((x + y) % 100)
                     /\ FlagSet(cpu.f, \h10) <=> x + y >= 100
             /\ memory_read(memory, \h0100) = \hD6
                  => cpu.a = BcdByte((x + 100 - y) % 100)

\* 0x99 + 0x01 and DAA have run: A = 0x00 with Z and C set.
BcdSumCarried ==
    /\ cart = Image(<<\hC6, \h01, \h27>>)
    /\ last.op = "execute_cpu_cycle" /\ calls = 2
    /\ cpu.b = \h99
    /\ cpu.a = \h00
    /\ cpu.f = \h90

\* 0x10 - 0x01 and DAA have run: A = 0x09 with N set.
BcdDifferenceBorrowed ==
    /\ cart = Image(<<\hD6, \h01, \h27>>)
    /\ last.op = "execute_cpu_cycle" /\ calls = 2
    /\ cpu.b = \h10
    /\ cpu.a = \h09
    /\ cpu.f = \h40

\* The address of the first of the two tile-row bytes render_scanline reads for
\* pixel x of scanline `line`, and the tile index it found in the map.
TileRowRead(m, line, x) ==
    LET lcdc == memory_read(m, LCDC)
        bg_map_addr == IF Bit(lcdc, 3) = 1 THEN BG_MAP_1 ELSE BG_MAP_0
        bg_y == U8(line + memory_read(m, SCY))
        bg_x == U8(x + memory_read(m, SCX))
    IN  [index |-> memory_read(m, bg_map_addr + ((bg_y \div 8) * 32) + (bg_x \div 8)),
         row |-> bg_y % 8,
         unsigned |-> Bit(lcdc, 4) = 1,
         first |-> TileLineAddr(m, bg_map_addr, Bit(lcdc, 4) = 1,
                                bg_y \div 8, bg_y % 8, bg_x)]

\* A scanline has just been rendered with the LCD and the background on.
LineRendered ==
    /\ last'.op = "ppu_update"
    /\ ppu.mode = 0 /\ ppu'.line # ppu.line
    /\ Bit(memory_read(memory, LCDC), 7) = 1
    /\ Bit(memory_read(memory, LCDC), 0) = 1

\* C39: the two tile-row bytes the renderer reads for a pixel lie in the tile
\* data area 0x8000..0x97FF, at 0x8000 + 16 * index + 2 * row when LCDC bit 4 is
\* set and at 0x8800 + 16 * (signed(index) + 128) + 2 * row when it is clear.
TileRowsReadFromTileData ==
    [][LineRendered
         => \A x \in 0..(GB_SCREEN_WIDTH - 1) :
               LET read == TileRowRead(memory, ppu.line, x)
               IN  /\ read.first \in \h8000..\h97FE
                   /\ read.first = IF read.unsigned
                                   THEN \h8000 + (16 * read.index) + (2 * read.row)
                                   ELSE \h8800 + (16 * (Int8(read.index) + 128))
                                          + (2 * read.row)]_vars

\* What the renderer does: with LCDC bit 4 set the rows are read as C39 says; with
\* it clear they are read from 0x9000 + 16 * (signed(index) + 128) + 2 * row, which
\* is in the tile-map area for the indices 0..127.
TileRowsReadFromVideoRam ==
    [][LineRendered
         => \A x \in 0..(GB_SCREEN_WIDTH - 1) :
               LET read == TileRowRead(memory, ppu.line, x)
               IN  IF read.unsigned
                   THEN /\ read.first = \h8000 + (16 * read.index) + (2 * read.row)
                        /\ read.first \in \h8000..\h8FFE
                   ELSE /\ read.first = \h9000 + (16 * (Int8(read.index) + 128))
                                          + (2 * read.row)
                        /\ read.first \in \h9000..\h9FFE
                        /\ read.index < 128 <=> read.first >= BG_MAP_0]_vars

====
